---- MODULE Spec2Model ----
(***************************************************************************)
(* Model of the Turkish tax-plate parser (package vergilevhasi).           *)
(*                                                                         *)
(* Strings are sequences of characters, a character being a short          *)
(* TLA+ string.  Go's len() counts bytes, so ByteLen gives a character its  *)
(* UTF-8 width.  Every component of the program has its own variables and  *)
(* its own specification; the variables of the components a specification  *)
(* does not exercise stay at their idle values.                            *)
(***************************************************************************)
EXTENDS Integers, Sequences, FiniteSets, TLC

VARIABLES
    cand,       \* isValidVKN: the candidate string under validation
    verdict,    \* isValidVKN: "pending", then "valid" (true) or "invalid" (false)
    doc,        \* recovery: the document (embedded images, page raster) or image given
    run,        \* recovery: per invocation, its position, locals and result
    content,    \* parseContent: the lines of the text
    levha,      \* parseContent: the record being filled
    stage,      \* parseContent: the step to run next
    glyph,      \* Classify: the glyph image
    feats,      \* Classify: the features extracted from the image
    best,       \* Classify: the best digit and its score
    phase,      \* Classify: the position in the function
    call,       \* a function called on its own: its name
    arg,        \* a function called on its own: its argument
    ret,        \* a function called on its own: <<value>> once it has returned
    files,      \* concurrent Parse: the debug images in the working directory
    inv         \* concurrent Parse: per invocation, its position, input and result

vknVars == <<cand, verdict>>
recVars == <<doc, run>>
parseVars == <<content, levha, stage>>
clsVars == <<glyph, feats, best, phase>>
fnVars == <<call, arg, ret>>
concVars == <<files, inv>>
vars ==
    <<cand, verdict, doc, run, content, levha, stage, glyph, feats, best, phase,
      call, arg, ret, files, inv>>

\* the values of a component's variables in the specifications that leave it out
VknIdle == cand = <<>> /\ verdict = "idle"
RecIdle == doc = "none" /\ run = "none"
ParseIdle == content = <<>> /\ levha = "none" /\ stage = "idle"
ClsIdle == glyph = "none" /\ feats = <<>> /\ best = <<>> /\ phase = "idle"
FnIdle == call = "none" /\ arg = <<>> /\ ret = <<>>
ConcIdle == files = "none" /\ inv = "none"

(***************************************************************************)
(* Characters and Go's string primitives                                   *)
(***************************************************************************)
DigitChars == <<"0", "1", "2", "3", "4", "5", "6", "7", "8", "9">>

IsDigit(c) == \E i \in 1..10 : DigitChars[i] = c

\* the byte c - '0' of a decimal digit character
DigitVal(c) == (CHOOSE i \in 1..10 : DigitChars[i] = c) - 1

\* The letters outside ASCII are written with a caret: "^I" is the dotted
\* capital I (U+0130), "^i" the dotless small i (U+0131); "^C", "^G", "^O",
\* "^S", "^U" and their small forms are the letters with cedilla, breve and
\* diaeresis; "^J" is the Greek capital iota (U+0399), "^j" the small one.
\* Each takes two bytes in UTF-8.
TwoByteChars ==
    {"^C", "^G", "^I", "^O", "^S", "^U", "^c", "^g", "^i", "^o", "^s", "^u", "^J", "^j"}

\* "^-" is the en dash (U+2013), "^:" the fullwidth colon (U+FF1A), "^L" the
\* lira sign (U+20BA): three bytes each
ThreeByteChars == {"^-", "^:", "^L"}

\* the string of the model that a literal denotes
RECURSIVE Str(_)
Str(lit) ==
    IF Len(lit) = 0 THEN <<>>
    ELSE IF Head(lit) = "^" THEN <<SubSeq(lit, 1, 2)>> \o Str(SubSeq(lit, 3, Len(lit)))
    ELSE <<SubSeq(lit, 1, 1)>> \o Str(Tail(lit))

ByteLen(c) == IF c \in TwoByteChars THEN 2 ELSE IF c \in ThreeByteChars THEN 3 ELSE 1

RECURSIVE StrLen(_)
StrLen(s) == IF s = <<>> THEN 0 ELSE ByteLen(Head(s)) + StrLen(Tail(s))

\* s[lo:hi] of Go, 0-based and half-open, on a string of one-byte characters
Slice(s, lo, hi) == SubSeq(s, lo + 1, hi)

\* unicode.IsSpace on the characters of the model
IsSpace(c) == c \in {" ", "\t", "\n", "\r"}

\* the letters [A-Za-z] of a regular expression, and \w
AsciiUpper ==
    {"A", "B", "C", "D", "E", "F", "G", "H", "I", "J", "K", "L", "M",
     "N", "O", "P", "Q", "R", "S", "T", "U", "V", "W", "X", "Y", "Z"}

AsciiLower ==
    {"a", "b", "c", "d", "e", "f", "g", "h", "i", "j", "k", "l", "m",
     "n", "o", "p", "q", "r", "s", "t", "u", "v", "w", "x", "y", "z"}

IsWordChar(c) == c \in AsciiUpper \/ c \in AsciiLower \/ IsDigit(c) \/ c = "_"

\* unicode.ToLower / unicode.ToUpper, as <<upper, lower>> pairs.  The dotted
\* capital I has the plain i as its lower case and the dotless small i has the
\* plain I as its upper case; neither is the image of any letter.
CasePairs ==
    { <<"A", "a">>, <<"B", "b">>, <<"C", "c">>, <<"D", "d">>, <<"E", "e">>,
      <<"F", "f">>, <<"G", "g">>, <<"H", "h">>, <<"I", "i">>, <<"J", "j">>,
      <<"K", "k">>, <<"L", "l">>, <<"M", "m">>, <<"N", "n">>, <<"O", "o">>,
      <<"P", "p">>, <<"Q", "q">>, <<"R", "r">>, <<"S", "s">>, <<"T", "t">>,
      <<"U", "u">>, <<"V", "v">>, <<"W", "w">>, <<"X", "x">>, <<"Y", "y">>,
      <<"Z", "z">>, <<"^C", "^c">>, <<"^G", "^g">>, <<"^O", "^o">>,
      <<"^S", "^s">>, <<"^U", "^u">>, <<"^J", "^j">> }

LowerMap ==
    [c \in {p[1] : p \in CasePairs} \cup {"^I"} |->
        IF c = "^I" THEN "i" ELSE (CHOOSE p \in CasePairs : p[1] = c)[2]]

UpperMap ==
    [c \in {p[2] : p \in CasePairs} \cup {"^i"} |->
        IF c = "^i" THEN "I" ELSE (CHOOSE p \in CasePairs : p[2] = c)[1]]

ToLowerChar(c) == IF c \in DOMAIN LowerMap THEN LowerMap[c] ELSE c

ToUpperChar(c) == IF c \in DOMAIN UpperMap THEN UpperMap[c] ELSE c

\* strings.ToLower, strings.ToUpper
ToLower(s) == [i \in 1..Len(s) |-> ToLowerChar(s[i])]

ToUpper(s) == [i \in 1..Len(s) |-> ToUpperChar(s[i])]

\* sub occurs in s at character position i
OccursAt(s, sub, i) ==
    /\ i >= 1 /\ i + Len(sub) - 1 <= Len(s)
    /\ \A k \in 1..Len(sub) : s[i + k - 1] = sub[k]

\* strings.Contains
Contains(s, sub) == \E i \in 1..(Len(s) - Len(sub) + 1) : OccursAt(s, sub, i)

\* strings.Index as a character position from 1, 0 when sub does not occur
IndexOf(s, sub) ==
    LET at == {i \in 1..(Len(s) - Len(sub) + 1) : OccursAt(s, sub, i)}
    IN  IF at = {} THEN 0 ELSE CHOOSE i \in at : \A j \in at : i <= j

\* strings.HasSuffix
HasSuffix(s, suf) == OccursAt(s, suf, Len(s) - Len(suf) + 1)

\* strings.TrimSpace
TrimSpace(s) ==
    LET keep == {i \in 1..Len(s) : ~IsSpace(s[i])}
    IN  IF keep = {} THEN <<>>
        ELSE SubSeq(s, CHOOSE i \in keep : \A j \in keep : i <= j,
                       CHOOSE i \in keep : \A j \in keep : i >= j)

\* strings.Join
RECURSIVE Join(_, _)
Join(parts, sep) ==
    IF parts = <<>> THEN <<>>
    ELSE IF Len(parts) = 1 THEN parts[1]
    ELSE parts[1] \o sep \o Join(Tail(parts), sep)

(***************************************************************************)
(* isValidVKN and looksLikeDate (ocr.go)                                   *)
(***************************************************************************)
isValidDay(s) ==
    /\ Len(s) = 2
    /\ LET d == DigitVal(s[1]) * 10 + DigitVal(s[2])
       IN  d >= 1 /\ d <= 31

isValidMonth(s) ==
    /\ Len(s) = 2
    /\ LET m == DigitVal(s[1]) * 10 + DigitVal(s[2])
       IN  m >= 1 /\ m <= 12

isValidYear(s) ==
    /\ Len(s) = 4
    /\ LET y == DigitVal(s[1]) * 1000 + DigitVal(s[2]) * 100
                  + DigitVal(s[3]) * 10 + DigitVal(s[4])
       IN  y >= 1900 /\ y <= 2100

\* mutant: the YYYYMMDD arrangement is not tried
looksLikeDate_DMYOnly(s) ==
    IF StrLen(s) # 10 THEN FALSE
    ELSE /\ isValidDay(Slice(s, 0, 2))
         /\ isValidMonth(Slice(s, 2, 4))
         /\ isValidYear(Slice(s, 4, 8))

looksLikeDate(s) ==
    IF StrLen(s) # 10 THEN FALSE
    ELSE IF /\ isValidDay(Slice(s, 0, 2))
            /\ isValidMonth(Slice(s, 2, 4))
            /\ isValidYear(Slice(s, 4, 8)) THEN TRUE
    ELSE IF /\ isValidYear(Slice(s, 0, 4))
            /\ isValidMonth(Slice(s, 4, 6))
            /\ isValidDay(Slice(s, 6, 8)) THEN TRUE
    ELSE FALSE

isValidVKN(vkn) ==
    IF StrLen(vkn) # 10 THEN FALSE
    ELSE IF vkn[1] = "0" THEN FALSE
    ELSE IF \E i \in 1..Len(vkn) : ~IsDigit(vkn[i]) THEN FALSE
    ELSE IF looksLikeDate(vkn) THEN FALSE
    ELSE TRUE

(***************************************************************************)
(* Barcode text and barcode scanning (ocr.go)                              *)
(*                                                                         *)
(* A raster image is known to the program only through what the barcode    *)
(* readers and the glyph recogniser make of it:                            *)
(*   syms    the symbols it shows, each readable by one reader at one of   *)
(*           the four rotations, as is ("raw") or only after enhanceBarcode *)
(*   upsyms  the symbols that become readable once the image is upscaled   *)
(*   digits  the digit string steps 1-6 of ExtractVKNFromImageData         *)
(*           recognise in it (glyphs of confidence >= 0.3)                 *)
(*   w, h    its size in pixels                                            *)
(***************************************************************************)
NoneStr == <<>>

orientations == <<0, 90, 180, 270>>

readers == <<"Code128", "Code39", "EAN13", "EAN8", "ITF", "CodaBar", "UPCA", "UPCE">>

\* regexp [1-9]\d{9} matching at position i of t
VknRunAt(t, i) ==
    /\ i + 9 <= Len(t)
    /\ IsDigit(t[i]) /\ t[i] # "0"
    /\ \A k \in 1..9 : IsDigit(t[i + k])

\* regexp \d{10} matching at position i of t
TenDigitRunAt(t, i) ==
    /\ i + 9 <= Len(t)
    /\ \A k \in 0..9 : IsDigit(t[i + k])

\* re.FindAllString(t, -1) for [1-9]\d{9}: leftmost, non-overlapping matches
RECURSIVE FindAllVknRuns(_, _)
FindAllVknRuns(t, i) ==
    IF i + 9 > Len(t) THEN <<>>
    ELSE IF VknRunAt(t, i) THEN <<SubSeq(t, i, i + 9)>> \o FindAllVknRuns(t, i + 10)
    ELSE FindAllVknRuns(t, i + 1)

\* re.FindString(t) for [1-9]\d{9}
FindVknRun(t) ==
    LET at == {i \in 1..Len(t) : VknRunAt(t, i)}
    IN  IF at = {} THEN NoneStr
        ELSE LET i == CHOOSE j \in at : \A k \in at : j <= k IN SubSeq(t, i, i + 9)

\* re2.FindString(t) for \d{10}
FindTenDigitRun(t) ==
    LET at == {i \in 1..Len(t) : TenDigitRunAt(t, i)}
    IN  IF at = {} THEN NoneStr
        ELSE LET i == CHOOSE j \in at : \A k \in at : j <= k IN SubSeq(t, i, i + 9)

\* mutant: only a validated match is returned
extractVKNFromBarcodeText_Strict(text) ==
    LET matches == FindAllVknRuns(text, 1)
        valid == {i \in 1..Len(matches) : isValidVKN(matches[i])}
    IN  IF valid # {} THEN matches[CHOOSE i \in valid : \A j \in valid : i <= j]
        ELSE NoneStr

extractVKNFromBarcodeText(text) ==
    LET matches == FindAllVknRuns(text, 1)
        valid == {i \in 1..Len(matches) : isValidVKN(matches[i])}
    IN  IF valid # {} THEN matches[CHOOSE i \in valid : \A j \in valid : i <= j]
        ELSE FindVknRun(text)

\* reader.Decode on the image rotated by rot: the decoded text, or failure
Decode(img, rot, reader, enhanced) ==
    LET hits == {y \in img.syms : /\ y.rot = rot
                                  /\ y.reader = reader
                                  /\ (y.need = "enhanced" => enhanced)}
    IN  IF hits = {} THEN [ok |-> FALSE, text |-> NoneStr]
        ELSE [ok |-> TRUE, text |-> (CHOOSE y \in hits : TRUE).text]

\* the first non-empty string of a sequence of results, or ""
RECURSIVE FirstFound(_)
FirstFound(results) ==
    IF results = <<>> THEN NoneStr
    ELSE IF Head(results) # NoneStr THEN Head(results)
    ELSE FirstFound(Tail(results))

scanCode128Only(img, rot, enhanced) ==
    LET d == Decode(img, rot, "Code128", enhanced)
        vkn == extractVKNFromBarcodeText(d.text)
    IN  IF ~d.ok THEN NoneStr
        ELSE IF vkn # NoneStr THEN vkn
        ELSE IF /\ StrLen(d.text) = 10
                /\ IsDigit(d.text[1]) /\ d.text[1] # "0"
                /\ \A i \in 1..Len(d.text) : IsDigit(d.text[i]) THEN d.text
        ELSE NoneStr

\* per rotation: the image as it is, then enhanced
scanCode128Barcode(img) ==
    FirstFound([k \in 1..8 |->
        scanCode128Only(img, orientations[(k + 1) \div 2], k % 2 = 0)])

RECURSIVE DigitsOf(_)
DigitsOf(t) ==
    IF t = <<>> THEN <<>>
    ELSE (IF IsDigit(Head(t)) THEN <<Head(t)>> ELSE <<>>) \o DigitsOf(Tail(t))

scanBarcodeOrientation(img, rot) ==
    LET first == Decode(img, rot, "Code128", FALSE)
        firstVkn == IF first.ok THEN extractVKNFromBarcodeText(first.text) ELSE NoneStr
        dec == [k \in 1..Len(readers) |-> Decode(img, rot, readers[k], FALSE)]
        byReader == [k \in 1..Len(readers) |->
                        IF dec[k].ok THEN extractVKNFromBarcodeText(dec[k].text)
                        ELSE NoneStr]
        fromDigits == [k \in 1..Len(readers) |->
                        IF dec[k].ok /\ StrLen(DigitsOf(dec[k].text)) >= 10
                        THEN FindVknRun(DigitsOf(dec[k].text)) ELSE NoneStr]
    IN  FirstFound(<<firstVkn>> \o byReader \o fromDigits)

scanBarcode(img) ==
    FirstFound([k \in 1..4 |-> scanBarcodeOrientation(img, orientations[k])])

upscaleImage(img, factor) ==
    [img EXCEPT !.w = img.w * factor, !.h = img.h * factor,
                !.syms = img.syms \cup img.upsyms, !.upsyms = {}]

\* steps 0 and 7 of ExtractVKNFromImageData; img.digits is the outcome of steps 1-6.
\* saveFails: debug is on and saveImage returns an error (the grey-scale image
\* of step 1 is the first one saved)
ExtractVKNFromImageData(img, saveFails) ==
    LET byBarcode == scanBarcode(img)
        m1 == FindVknRun(img.digits)
        m2 == FindTenDigitRun(img.digits)
    IN  IF byBarcode # NoneStr THEN [vkn |-> byBarcode, err |-> FALSE]
        ELSE IF saveFails THEN [vkn |-> NoneStr, err |-> TRUE]
        ELSE IF m1 # NoneStr THEN [vkn |-> m1, err |-> FALSE]
        ELSE IF m2 # NoneStr THEN [vkn |-> m2, err |-> FALSE]
        ELSE [vkn |-> NoneStr, err |-> TRUE]

(***************************************************************************)
(* Specification SpecVKN: a candidate string is drawn, isValidVKN judges it *)
(***************************************************************************)
FromDigits(ds) == [i \in 1..Len(ds) |-> DigitChars[ds[i] + 1]]

\* two-digit groups around the limits of day (1..31), month (1..12) and the
\* century parts of a year (1900..2100)
PairSet ==
    { FromDigits(p) : p \in { <<0, 0>>, <<0, 1>>, <<1, 2>>, <<1, 3>>, <<1, 5>>,
                              <<1, 8>>, <<1, 9>>, <<2, 0>>, <<2, 1>>, <<2, 3>>,
                              <<3, 1>>, <<3, 2>>, <<9, 9>> } }

TailPairs == { FromDigits(<<0, 0>>), FromDigits(<<8, 6>>) }

GridCands ==
    { a \o b \o c \o d \o e : a \in PairSet, b \in PairSet, c \in PairSet,
                               d \in PairSet, e \in TailPairs }

\* the strings of TestIsValidVKN (imgconv_test.go) and malformed ones
TestCands ==
    { FromDigits(<<1, 2, 2, 2, 1, 5, 3, 9, 8, 6>>),
      FromDigits(<<8, 5, 8, 9, 7, 0, 6, 2, 0, 0>>),
      FromDigits(<<1, 2, 3, 4, 5, 6, 7, 8, 9, 0>>),
      FromDigits(<<0, 1, 2, 3, 4, 5, 6, 7, 8, 9>>),
      FromDigits(<<1, 2, 3, 4, 5, 6, 7, 8, 9>>),
      FromDigits(<<1, 2, 3, 4, 5, 6, 7, 8, 9, 0, 1>>),
      FromDigits(<<1, 2, 3, 4, 5, 6, 7, 8, 9>>) \o <<"A">>,
      FromDigits(<<1, 5, 0, 1, 2, 0, 2, 3, 0, 0>>),
      FromDigits(<<1, 2, 3, 4, 5, 6, 7, 8>>) \o <<"^O">>,
      <<"A">> \o FromDigits(<<1, 2, 3, 4, 5, 6, 7, 8, 9>>),
      <<>> }

VknInputs == GridCands \cup TestCands

VknInit == cand \in VknInputs /\ verdict = "pending" /\ RecIdle /\ ParseIdle /\ ClsIdle /\ FnIdle /\ ConcIdle

\* one call isValidVKN(cand)
Validate ==
    /\ verdict = "pending"
    /\ verdict' = IF isValidVKN(cand) THEN "valid" ELSE "invalid"
    /\ UNCHANGED <<cand, recVars, parseVars, clsVars, fnVars, concVars>>

SpecVKN == VknInit /\ [][Validate]_vars

(***************************************************************************)
(* C3: for a string of exactly 10 decimal digits isValidVKN is true iff    *)
(* the first digit is not 0 and the string is date-like under neither the  *)
(* DDMMYYYY nor the YYYYMMDD arrangement; any other string is invalid.     *)
(***************************************************************************)
RECURSIVE NumOf(_)
NumOf(s) == IF s = <<>> THEN 0
            ELSE NumOf(SubSeq(s, 1, Len(s) - 1)) * 10 + DigitVal(s[Len(s)])

TenDigits(s) == Len(s) = 10 /\ \A i \in 1..10 : IsDigit(s[i])

InRange(s, from, to, lo, hi) ==
    LET n == NumOf(SubSeq(s, from, to)) IN lo <= n /\ n <= hi

DateLikeDMY(s) ==
    InRange(s, 1, 2, 1, 31) /\ InRange(s, 3, 4, 1, 12) /\ InRange(s, 5, 8, 1900, 2100)

DateLikeYMD(s) ==
    InRange(s, 1, 4, 1900, 2100) /\ InRange(s, 5, 6, 1, 12) /\ InRange(s, 7, 8, 1, 31)

PassesValidation(s) ==
    TenDigits(s) /\ s[1] # "0" /\ ~DateLikeDMY(s) /\ ~DateLikeYMD(s)

C3_Theorem ==
    verdict \in {"valid", "invalid"} => (verdict = "valid" <=> PassesValidation(cand))

\* a candidate rejected by the YYYYMMDD arrangement alone
C3_Witness ==
    /\ verdict = "invalid"
    /\ TenDigits(cand) /\ cand[1] # "0"
    /\ DateLikeYMD(cand) /\ ~DateLikeDMY(cand)

(***************************************************************************)
(* Specification SpecRecover: the identifier-recovery pipeline             *)
(* (ExtractVKNFromPDFReaderWithImage, ExtractVKNFromImageData), run twice  *)
(* on the same document                                                    *)
(***************************************************************************)
MaxImages == 2

Sym(rot, reader, need, text) ==
    [rot |-> rot, reader |-> reader, need |-> need, text |-> text]

Raster(w, h, syms, upsyms, digits) ==
    [w |-> w, h |-> h, syms |-> syms, upsyms |-> upsyms, digits |-> digits]

tVknA == FromDigits(<<8, 5, 8, 9, 7, 0, 6, 2, 0, 0>>)
tVknB == FromDigits(<<1, 2, 2, 2, 1, 5, 3, 9, 8, 6>>)
tDate == FromDigits(<<1, 5, 0, 1, 2, 0, 2, 3, 0, 0>>)
tEan  == FromDigits(<<0, 0, 1, 2, 2, 2, 1, 5, 3, 9, 8, 6, 3>>)
tZero == FromDigits(<<0, 1, 2, 3, 4, 5, 6, 7, 8, 9>>)

Blank(w, h) == Raster(w, h, {}, {}, NoneStr)

\* the images a document may embed
EmbeddedImages ==
    { Blank(600, 300),
      Raster(600, 300, {Sym(0, "Code128", "raw", tVknA)}, {}, NoneStr),
      Raster(600, 300, {Sym(90, "Code128", "enhanced", tVknB)}, {}, NoneStr),
      Raster(600, 300, {Sym(0, "EAN13", "raw", tEan)}, {}, NoneStr),
      Raster(600, 300, {Sym(0, "Code128", "raw", tDate)}, {}, NoneStr),
      Raster(300, 80, {}, {Sym(0, "Code128", "raw", tVknA)}, NoneStr),
      Raster(600, 150, {}, {Sym(180, "Code128", "raw", tVknB)}, NoneStr) }

\* what imgconv.Decode renders of the first page, with the crops the pipeline
\* takes of the image it scans: ok = FALSE when rendering fails
Page(ok, full, crop, regions, area) ==
    [ok |-> ok, full |-> full, crop |-> crop, regions |-> regions, area |-> area]

NoRegions == [k \in 1..4 |-> Blank(500, 500)]

Pages ==
    { Page(FALSE, Blank(0, 0), Blank(0, 0), NoRegions, Blank(0, 0)),
      Page(TRUE, Raster(1200, 1600, {Sym(0, "Code128", "raw", tVknA)}, {}, NoneStr),
           Blank(450, 450), NoRegions, Blank(500, 400)),
      Page(TRUE, Raster(800, 600, {}, {}, NoneStr),
           Raster(900, 500, {Sym(0, "Code128", "raw", tVknB)}, {}, NoneStr),
           NoRegions, Blank(1000, 450)),
      Page(TRUE, Blank(1200, 1600), Blank(450, 450),
           [NoRegions EXCEPT ![3] =
               Raster(600, 1600, {Sym(270, "Code39", "raw", tVknA)}, {}, NoneStr)],
           Blank(500, 400)),
      Page(TRUE, Blank(1200, 1600), Blank(450, 450), NoRegions,
           Raster(500, 400, {}, {}, tZero)),
      Page(TRUE, Blank(1200, 1600), Blank(450, 450), NoRegions,
           Raster(500, 400, {}, {}, <<"7">> \o tVknA)),
      Page(TRUE, Blank(1200, 1600), Blank(450, 450), NoRegions, Blank(500, 400)) }

\* the images given directly to ExtractVKNFromImageData
GivenImages ==
    { Raster(500, 400, {}, {}, tDate),
      Raster(500, 400, {Sym(0, "Code128", "raw", tVknB)}, {}, tVknA),
      Blank(500, 400) }

Docs ==
    { [entry |-> "pdf", images |-> im, page |-> pg, given |-> Blank(0, 0),
       saveOk |-> ok] :
        im \in {x \in SUBSET EmbeddedImages : Cardinality(x) <= MaxImages},
        pg \in Pages, ok \in BOOLEAN }
    \cup
    { [entry |-> "image", images |-> {}, page |-> Page(FALSE, Blank(0, 0), Blank(0, 0),
                                                      NoRegions, Blank(0, 0)),
       given |-> g, saveOk |-> ok] : g \in GivenImages, ok \in BOOLEAN }

Runs == {1, 2}

\* the sequences that list every element of the set S once
Orderings(S) ==
    {q \in [1..Cardinality(S) -> S] : \A i, j \in 1..Cardinality(S) : q[i] = q[j] => i = j}

\* debug: SetOCRDebug; tried: the scans made so far, in the order made
StartRun ==
    [pc |-> "start", images |-> <<>>, idx |-> 0, img |-> Blank(0, 0),
     vkn |-> NoneStr, err |-> FALSE, debug |-> FALSE, tried |-> <<>>]

\* doc.saveOk: whether os.Create of saveImage succeeds in the working directory
RecInit ==
    /\ doc \in Docs
    /\ run \in {[r \in Runs |-> [StartRun EXCEPT !.debug = d[r]]] : d \in [Runs -> BOOLEAN]}
    /\ VknIdle /\ ParseIdle /\ ClsIdle /\ FnIdle /\ ConcIdle

\* the second invocation starts when the first has returned
Turn(r) == r = 1 \/ run[1].pc = "done"

Return(r, vkn, err) ==
    run' = [run EXCEPT ![r].pc = "done", ![r].vkn = vkn, ![r].err = err]

\* if p.debug { err := saveImage(...); if err != nil { return "", err } }
SaveFails(r) == run[r].debug /\ ~doc.saveOk

\* one scan: its stage, the image or region it is made on, whether on the
\* upscaled image, and the identifier it gives
Attempt(step, idx, up, got) == [step |-> step, idx |-> idx, up |-> up, got |-> got]

\* the run after the scans made in one step
Tried(r, attempts) == [run EXCEPT ![r].tried = run[r].tried \o attempts]

Returned(rn, r, vkn, err) == [rn EXCEPT ![r].pc = "done", ![r].vkn = vkn, ![r].err = err]

\* extractAllPDFImages: Go ranges over the map objNr -> image of a page in an
\* unspecified order; with no image the function fails and the page is rendered
ExtractImages(r) ==
    /\ Turn(r) /\ run[r].pc = "start" /\ doc.entry = "pdf"
    /\ \E order \in Orderings(doc.images) :
          run' = [run EXCEPT ![r].images = order,
                             ![r].pc = IF Len(order) = 0 THEN "render" ELSE "first"]
    /\ UNCHANGED <<doc, vknVars, parseVars, clsVars, fnVars, concVars>>

\* the first image: Code-128 only, then upscaled by 4 when small; in debug
\* mode the image is saved before it is scanned
ScanFirstImage(r) ==
    /\ Turn(r) /\ run[r].pc = "first"
    /\ LET firstImg == run[r].images[1]
           direct == scanCode128Barcode(firstImg)
           small == firstImg.w < 500 \/ firstImg.h < 100
           scaled == IF small THEN scanCode128Barcode(upscaleImage(firstImg, 4))
                     ELSE NoneStr
           a1 == Attempt("image", 1, FALSE, direct)
           a2 == Attempt("image", 1, TRUE, scaled)
       IN  IF SaveFails(r) THEN Return(r, NoneStr, TRUE)
           ELSE IF direct # NoneStr
                THEN run' = Returned(Tried(r, <<a1>>), r, direct, FALSE)
           ELSE IF scaled # NoneStr
                THEN run' = Returned(Tried(r, <<a1, a2>>), r, scaled, FALSE)
           ELSE run' = [Tried(r, IF small THEN <<a1, a2>> ELSE <<a1>>)
                           EXCEPT ![r].pc = IF Len(run[r].images) > 1 THEN "rest"
                                            ELSE "render",
                                  ![r].idx = 2]
    /\ UNCHANGED <<doc, vknVars, parseVars, clsVars, fnVars, concVars>>

\* one iteration of the loop over the remaining images
ScanNextImage(r) ==
    /\ Turn(r) /\ run[r].pc = "rest"
    /\ LET img == run[r].images[run[r].idx]
           direct == scanBarcode(img)
           small == img.w < 500 \/ img.h < 200
           scaled == IF small THEN scanBarcode(upscaleImage(img, 3)) ELSE NoneStr
           a1 == Attempt("image", run[r].idx, FALSE, direct)
           a2 == Attempt("image", run[r].idx, TRUE, scaled)
       IN  IF SaveFails(r) THEN Return(r, NoneStr, TRUE)
           ELSE IF direct # NoneStr
                THEN run' = Returned(Tried(r, <<a1>>), r, direct, FALSE)
           ELSE IF scaled # NoneStr
                THEN run' = Returned(Tried(r, <<a1, a2>>), r, scaled, FALSE)
           ELSE run' = [Tried(r, IF small THEN <<a1, a2>> ELSE <<a1>>)
                           EXCEPT ![r].pc = IF run[r].idx < Len(run[r].images)
                                            THEN "rest" ELSE "render",
                                  ![r].idx = run[r].idx + 1]
    /\ UNCHANGED <<doc, vknVars, parseVars, clsVars, fnVars, concVars>>

\* imgconv.Decode renders the first page; a small rendering is upscaled by 3;
\* in debug mode the rendering is saved
RenderPage(r) ==
    /\ Turn(r) /\ run[r].pc = "render"
    /\ IF ~doc.page.ok \/ SaveFails(r) THEN Return(r, NoneStr, TRUE)
       ELSE LET img == doc.page.full
                small == img.w < 1000 \/ img.h < 1000
            IN  run' = [run EXCEPT ![r].pc = "full",
                                   ![r].img = IF small THEN upscaleImage(img, 3) ELSE img]
    /\ UNCHANGED <<doc, vknVars, parseVars, clsVars, fnVars, concVars>>

ScanFullPage(r) ==
    /\ Turn(r) /\ run[r].pc = "full"
    /\ LET vkn == scanBarcode(run[r].img)
           a == Attempt("full", 0, FALSE, vkn)
       IN  IF vkn # NoneStr THEN run' = Returned(Tried(r, <<a>>), r, vkn, FALSE)
           ELSE run' = [Tried(r, <<a>>) EXCEPT ![r].pc = "crop"]
    /\ UNCHANGED <<doc, vknVars, parseVars, clsVars, fnVars, concVars>>

\* cropBarcodeArea: the bottom-right crop of the page image
ScanBarcodeCrop(r) ==
    /\ Turn(r) /\ run[r].pc = "crop"
    /\ LET vkn == scanBarcode(doc.page.crop)
           a == Attempt("crop", 0, FALSE, vkn)
       IN  IF SaveFails(r) THEN Return(r, NoneStr, TRUE)
           ELSE IF vkn # NoneStr THEN run' = Returned(Tried(r, <<a>>), r, vkn, FALSE)
           ELSE run' = [Tried(r, <<a>>) EXCEPT ![r].pc = "regions", ![r].idx = 1]
    /\ UNCHANGED <<doc, vknVars, parseVars, clsVars, fnVars, concVars>>

\* one iteration of the loop over getBarcodeCropRegions
ScanCropRegion(r) ==
    /\ Turn(r) /\ run[r].pc = "regions"
    /\ LET vkn == scanBarcode(doc.page.regions[run[r].idx])
           a == Attempt("region", run[r].idx, FALSE, vkn)
       IN  IF SaveFails(r) THEN Return(r, NoneStr, TRUE)
           ELSE IF vkn # NoneStr THEN run' = Returned(Tried(r, <<a>>), r, vkn, FALSE)
           ELSE run' = [Tried(r, <<a>>)
                           EXCEPT ![r].pc = IF run[r].idx < 4 THEN "regions" ELSE "ocr",
                                  ![r].idx = run[r].idx + 1]
    /\ UNCHANGED <<doc, vknVars, parseVars, clsVars, fnVars, concVars>>

\* cropVKNTextArea, then ExtractVKNFromImageData on it
GlyphOCR(r) ==
    /\ Turn(r) /\ run[r].pc = "ocr"
    /\ LET res == ExtractVKNFromImageData(doc.page.area, SaveFails(r))
           a == Attempt("ocr", 0, FALSE, res.vkn)
       IN  IF SaveFails(r) THEN Return(r, NoneStr, TRUE)
           ELSE IF ~res.err /\ res.vkn # NoneStr
                THEN run' = Returned(Tried(r, <<a>>), r, res.vkn, FALSE)
           ELSE run' = Returned(Tried(r, <<a>>), r, NoneStr, TRUE)
    /\ UNCHANGED <<doc, vknVars, parseVars, clsVars, fnVars, concVars>>

\* ExtractVKNFromImageData called on an image of the caller's
FromImageData(r) ==
    /\ Turn(r) /\ run[r].pc = "start" /\ doc.entry = "image"
    /\ LET res == ExtractVKNFromImageData(doc.given, SaveFails(r))
       IN  Return(r, res.vkn, res.err)
    /\ UNCHANGED <<doc, vknVars, parseVars, clsVars, fnVars, concVars>>

RecNext ==
    \E r \in Runs :
        \/ ExtractImages(r)
        \/ ScanFirstImage(r)
        \/ ScanNextImage(r)
        \/ RenderPage(r)
        \/ ScanFullPage(r)
        \/ ScanBarcodeCrop(r)
        \/ ScanCropRegion(r)
        \/ GlyphOCR(r)
        \/ FromImageData(r)

SpecRecover == RecInit /\ [][RecNext]_vars

(***************************************************************************)
(* C4: every non-empty identifier a recovery operation returns passes      *)
(* isValidVKN (10 digits, first digit not 0, not date-like).               *)
(***************************************************************************)
C4_ReturnedIdentifierIsValid ==
    \A r \in Runs :
        (run[r].pc = "done" /\ run[r].vkn # NoneStr) => isValidVKN(run[r].vkn)

(***************************************************************************)
(* C8: the identifier the recovery pipeline returns for a document does    *)
(* not depend on the order in which the embedded images are enumerated:    *)
(* two invocations on the same document return the same result.            *)
(***************************************************************************)
C8_SameResultOnSameDocument ==
    (run[1].pc = "done" /\ run[2].pc = "done" /\ run[1].debug = run[2].debug) =>
        (run[1].vkn = run[2].vkn /\ run[1].err = run[2].err)

(***************************************************************************)
(* C14: a recovery operation returns the same identifier and error with    *)
(* debug enabled as with debug disabled, also when saveImage fails.        *)
(***************************************************************************)
DebugOnAndOff ==
    /\ run[1].pc = "done" /\ run[2].pc = "done"
    /\ run[1].debug # run[2].debug
    /\ run[1].images = run[2].images

C14_DebugDoesNotAlterResult ==
    DebugOnAndOff => (run[1].vkn = run[2].vkn /\ run[1].err = run[2].err)

\* when every debug image can be written, debug does not alter the result
DebugHarmlessWhenSaved ==
    DebugOnAndOff /\ doc.saveOk => (run[1].vkn = run[2].vkn /\ run[1].err = run[2].err)

(***************************************************************************)
(* The stages of ExtractVKNFromPDFReaderWithImage in the order of the code *)
(***************************************************************************)
\* the first image is retried upscaled when narrower than 500 or lower than
\* 100 pixels, a later image when narrower than 500 or lower than 200
SmallImage(img, i) == img.w < 500 \/ img.h < (IF i = 1 THEN 100 ELSE 200)

Stage(step, idx, up) == [step |-> step, idx |-> idx, up |-> up]

RECURSIVE ImageStages(_, _)
ImageStages(images, i) ==
    IF i > Len(images) THEN <<>>
    ELSE <<Stage("image", i, FALSE)>>
         \o (IF SmallImage(images[i], i) THEN <<Stage("image", i, TRUE)>> ELSE <<>>)
         \o ImageStages(images, i + 1)

\* the scans of the rendered page; none can be made when rendering fails
PageStages ==
    <<Stage("full", 0, FALSE), Stage("crop", 0, FALSE)>>
    \o [k \in 1..4 |-> Stage("region", k, FALSE)]
    \o <<Stage("ocr", 0, FALSE)>>

StageOrder(images, page) ==
    ImageStages(images, 1) \o (IF page.ok THEN PageStages ELSE <<>>)

StagesOf(tried) == [k \in 1..Len(tried) |-> Stage(tried[k].step, tried[k].idx, tried[k].up)]

IsPrefix(s, t) == Len(s) <= Len(t) /\ SubSeq(t, 1, Len(s)) = s

\* the scans of an invocation follow the order, only the last one gives an
\* identifier, which is then the result, and without one every scan is made
InStageOrder(r) ==
    LET tried == run[r].tried
        order == StageOrder(run[r].images, doc.page)
    IN  /\ IsPrefix(StagesOf(tried), order)
        /\ \A k \in 1..Len(tried) : k < Len(tried) => tried[k].got = NoneStr
        /\ run[r].pc = "done" /\ run[r].vkn # NoneStr =>
              tried # <<>> /\ tried[Len(tried)].got = run[r].vkn
        /\ run[r].pc = "done" /\ run[r].vkn = NoneStr =>
              Len(tried) = Len(order) /\ (tried # <<>> => tried[Len(tried)].got = NoneStr)
        /\ run[r].pc # "done" => (tried # <<>> => tried[Len(tried)].got = NoneStr)

(***************************************************************************)
(* C15: ExtractVKNFromPDFReaderWithImage scans each embedded image (its    *)
(* upscaled retry before the next image), then the page raster, the        *)
(* bottom-right crop, the four alternative crops and the glyphs, in this   *)
(* order; the first scan that gives an identifier ends the pipeline with   *)
(* it, and a scan that gives none is followed by the next one.             *)
(***************************************************************************)
C15_StagesInOrder ==
    \A r \in Runs : doc.entry = "pdf" => InStageOrder(r)

\* the order is kept by every invocation that no debug image interrupts
StagesInOrderUnlessSaveFails ==
    \A r \in Runs : doc.entry = "pdf" /\ ~SaveFails(r) => InStageOrder(r)

(***************************************************************************)
(* The scan of one image as a list of readers tried rotation by rotation   *)
(***************************************************************************)
\* what the text one reader decodes at one rotation gives
ReaderCandidate(img, rot, reader, enhance) ==
    LET d == Decode(img, rot, reader, enhance)
    IN  IF ~d.ok THEN NoneStr
        ELSE FirstFound(<<extractVKNFromBarcodeText(d.text),
                          IF StrLen(DigitsOf(d.text)) >= 10
                          THEN FindVknRun(DigitsOf(d.text)) ELSE NoneStr>>)

\* rotations in the order of orientations, at each rotation the readers rs in
\* their order; enhance: the image is also read after enhanceBarcode
ReadersScan(img, rs, enhance) ==
    FirstFound([k \in 1..(4 * Len(rs)) |->
        ReaderCandidate(img, orientations[((k - 1) \div Len(rs)) + 1],
                        rs[((k - 1) % Len(rs)) + 1], enhance)])

\* the image the scan tried[k] of invocation r is made on
ScannedImage(r, k) ==
    LET a == run[r].tried[k]
        img == run[r].images[a.idx]
    IN  IF a.up THEN upscaleImage(img, IF a.idx = 1 THEN 4 ELSE 3) ELSE img

ImageScans(r) == {k \in 1..Len(run[r].tried) : run[r].tried[k].step = "image"}

(***************************************************************************)
(* C16: the scan of every embedded image, the first one included, tries    *)
(* the rotations 0, 90, 180, 270 in this order and at each rotation the    *)
(* Code-128 reader and then Code-39, EAN-13, EAN-8, ITF, Codabar, UPC-A,   *)
(* UPC-E; the first candidate in this order is the result for the image.   *)
(***************************************************************************)
C16_AllReadersOnEveryImage ==
    \A r \in Runs : \A k \in ImageScans(r) :
        run[r].tried[k].got =
            ReadersScan(ScannedImage(r, k), readers, run[r].tried[k].idx = 1)

\* the images after the first are scanned with all the readers in this order
AllReadersOnLaterImages ==
    \A r \in Runs : \A k \in ImageScans(r) :
        run[r].tried[k].idx > 1 =>
            run[r].tried[k].got = ReadersScan(ScannedImage(r, k), readers, FALSE)

\* the first image is scanned with the Code-128 reader alone
Code128OnFirstImage ==
    \A r \in Runs : \A k \in ImageScans(r) :
        run[r].tried[k].idx = 1 =>
            run[r].tried[k].got = ReadersScan(ScannedImage(r, k), <<"Code128">>, TRUE)

(***************************************************************************)
(* The record parser (parseContent and the functions it calls)             *)
(*                                                                         *)
(* A text is the sequence of its lines, strings.Split(text, "\n"); indices *)
(* into it are Go's, from 0.                                               *)
(***************************************************************************)
At(lines, i) == lines[i + 1]

\* the closure containsAny of parseContent
containsAny(line, keywords) ==
    LET lineLower == ToLower(line)
    IN  \E k \in 1..Len(keywords) : Contains(lineLower, ToLower(keywords[k]))

markerWords == <<Str("MKELLEF"), Str("M^UKELLEF^IN")>>

addressMarkers ==
    <<Str("MAH."), Str("MAH "), Str("CAD."), Str("CAD "), Str("SOK."), Str("SOK "),
      Str("SK."), Str("SK "), Str("NO:"), Str("KAPI"), Str("BULVARI"), Str("BULV.")>>

\* the cities of turkishCities that the lines of the model can show
turkishCities ==
    <<Str("ANKARA"), Str("^ISTANBUL"), Str("ISTANBUL"), Str("^IZM^IR"), Str("IZMIR"),
      Str("BURSA"), Str("VAN")>>

companyWords ==
    <<Str("^S^IRKET"), Str("SIRKET"), Str("L^IM^ITED"), Str("LIMITED"), Str("A.^S"),
      Str("A.S."), Str("DERNE^G^I"), Str("DERNEGI"), Str("^IKT^ISAD^I"),
      Str("IKTISADI"), Str("SANAY^I"), Str("SANAYI"), Str("T^ICARET"), Str("TICARET")>>

taxTypeLineWords ==
    <<Str("KURUMLAR VERG^IS^I"), Str("YILLIK GEL^IR VERG^IS^I"),
      Str("GEL^IR VERG^IS^I"), Str("KATMA DE^GER VERG^IS^I")>>

taxTypeScanWords ==
    <<Str("KURUMLAR VERG^IS^I"), Str("YILLIK GEL^IR VERG^IS^I"), Str("GEL^IR VERG^IS^I")>>

taxWords == <<Str("VERG^IS^I"), Str("VERGISI")>>

webWords == <<Str("http"), Str("www"), Str("gib.gov")>>

bannerWords == <<Str("VERG^I LEVHASI"), Str("VERGI LEVHASI"), Str("G^IB"), Str("GIB")>>

isMarkerLine(trimmed) ==
    \E k \in 1..Len(markerWords) : Contains(ToUpper(trimmed), markerWords[k])

isAddressLine(line) ==
    \E k \in 1..Len(addressMarkers) : Contains(ToUpper(line), addressMarkers[k])

containsCityName(line) ==
    LET upperLine == ToUpper(line)
    IN  \E k \in 1..Len(turkishCities) :
            LET city == turkishCities[k]
            IN  \/ Contains(upperLine, Str("/ ") \o city)
                \/ Contains(upperLine, Str("/") \o city)
                \/ HasSuffix(upperLine, city)
                \/ Contains(upperLine, city \o Str("/"))

AllDigits(t, lo, hi) == \A i \in lo..hi : IsDigit(t[i])

\* ^\d{2}\.\d{2}\.\d{4}$
dateRe(t) ==
    /\ Len(t) = 10
    /\ AllDigits(t, 1, 2) /\ t[3] = "." /\ AllDigits(t, 4, 5) /\ t[6] = "."
    /\ AllDigits(t, 7, 10)

\* ^\d{11}$
tcknRe(t) == Len(t) = 11 /\ AllDigits(t, 1, 11)

\* ^\d+$
digitOnlyRe(t) == Len(t) >= 1 /\ AllDigits(t, 1, Len(t))


(***************************************************************************)
(* Regular expressions.  A label pattern is a sequence of atoms, an atom a *)
(* set of characters with a least and a greatest number of repetitions;    *)
(* no atom of the patterns below can match the character that begins the   *)
(* next one, so that the greedy match is the leftmost-first match.         *)
(***************************************************************************)
Unbounded == 1000000

SpaceChars == {" ", "\t", "\n", "\r"}

\* simple case folding under (?i): the dotted capital and the dotless small i
\* fold with no other letter
FoldChar(c) == IF c \in {"^I", "^i"} THEN c ELSE ToLowerChar(c)

\* atoms of a pattern under (?i): their sets hold folded characters
Atom(set, min, max) == <<[set |-> set, min |-> min, max |-> max, fold |-> TRUE]>>

One(set) == Atom(set, 1, 1)

Opt(set) == Atom(set, 0, 1)

Star(set) == Atom(set, 0, Unbounded)

Plus(set) == Atom(set, 1, Unbounded)

\* a literal under (?i)
Lit(lit) == [k \in 1..Len(Str(lit)) |->
                [set |-> {FoldChar(Str(lit)[k])}, min |-> 1, max |-> 1, fold |-> TRUE]]

\* the same atoms in a pattern without (?i)
Exact(atoms) == [k \in 1..Len(atoms) |-> [atoms[k] EXCEPT !.fold = FALSE]]

ExactLit(lit) == [k \in 1..Len(Str(lit)) |->
                    [set |-> {Str(lit)[k]}, min |-> 1, max |-> 1, fold |-> FALSE]]

WS0 == Star(SpaceChars)

WS1 == Plus(SpaceChars)

\* [:<fullwidth colon>]
Colon == One({":", "^:"})

AtomHas(a, c) == IF a.fold THEN FoldChar(c) \in a.set ELSE c \in a.set

\* the number of characters from position i on that atom a matches, at most max
RECURSIVE RunLength(_, _, _, _)
RunLength(t, i, a, max) ==
    IF max = 0 \/ i > Len(t) \/ ~AtomHas(a, t[i]) THEN 0
    ELSE 1 + RunLength(t, i + 1, a, max - 1)

\* the position after the match of atoms that begins at position i, 0 if none
RECURSIVE MatchAtoms(_, _, _)
MatchAtoms(t, i, atoms) ==
    IF atoms = <<>> THEN i
    ELSE LET a == Head(atoms)
             n == RunLength(t, i, a, a.max)
         IN  IF n < a.min THEN 0 ELSE MatchAtoms(t, i + n, Tail(atoms))

\* the position after the white space that begins at position i
SkipSpace(t, i) == i + RunLength(t, i, WS0[1], Unbounded)

NoMatch == [ok |-> FALSE, val |-> <<>>]

Match(val) == [ok |-> TRUE, val |-> val]

\* the first position from i on where a match begins, 0 if there is none
FirstPos(t, i, Hit(_)) ==
    LET at == {p \in i..Len(t) : Hit(p)}
    IN  IF at = {} THEN 0 ELSE CHOOSE p \in at : \A q \in at : p <= q

\* the leftmost match from position i on, MatchFrom(p) being the match that
\* begins at position p
FirstMatch(t, i, MatchFrom(_)) ==
    LET at == {p \in i..Len(t) : MatchFrom(p).ok}
    IN  IF at = {} THEN NoMatch
        ELSE MatchFrom(CHOOSE p \in at : \A q \in at : p <= q)

\* the position of the first "\n" from position i on, Len(t) + 1 if none
RECURSIVE LineEnd(_, _)
LineEnd(t, i) == IF i > Len(t) \/ t[i] = "\n" THEN i ELSE LineEnd(t, i + 1)

\* \s*(.+?)(?:\n|$) from position j, k being the position after the white
\* space: the greedy \s* runs over line ends to the next character that is not
\* white space and the group takes the rest of that line; when only white
\* space follows, \s* gives back a character that is not a line end for the
\* group to match
CaptureRest(t, j, k) ==
    IF k <= Len(t) THEN Match(SubSeq(t, k, LineEnd(t, k) - 1))
    ELSE IF \E q \in j..Len(t) : t[q] # "\n" THEN Match(<<" ">>)
    ELSE NoMatch

\* \s*(\d{n}), the digits from position k
CaptureDigits(t, k, n) ==
    IF k + n - 1 <= Len(t) /\ AllDigits(t, k, k + n - 1)
    THEN Match(SubSeq(t, k, k + n - 1)) ELSE NoMatch

\* \s*(\d{2}[./-]\d{2}[./-]\d{4}), the date from position k
CaptureDate(t, k) ==
    IF /\ k + 9 <= Len(t)
       /\ AllDigits(t, k, k + 1) /\ t[k + 2] \in {".", "/", "-"}
       /\ AllDigits(t, k + 3, k + 4) /\ t[k + 5] \in {".", "/", "-"}
       /\ AllDigits(t, k + 6, k + 9)
    THEN Match(SubSeq(t, k, k + 9)) ELSE NoMatch

\* the group after the label that ends before position j
Capture(t, j, k, cap) ==
    IF j = 0 THEN NoMatch
    ELSE IF cap = "rest" THEN CaptureRest(t, j, k)
    ELSE IF cap = "d10" THEN CaptureDigits(t, k, 10)
    ELSE IF cap = "d11" THEN CaptureDigits(t, k, 11)
    ELSE CaptureDate(t, k)

Pattern(atoms, cap) == [atoms |-> atoms, cap |-> cap]

LabelEnd(t, i, pat, j) == Capture(t, j, SkipSpace(t, j), pat.cap)

\* the match of a label pattern that begins at position i
PatternAt(t, i, pat) == LabelEnd(t, i, pat, MatchAtoms(t, i, pat.atoms))

\* re.FindStringSubmatch(text)[1] for a label pattern: the leftmost match
FindFrom(t, i, pat) == FirstMatch(t, i, LAMBDA q : PatternAt(t, q, pat))

\* mutant: only the first pattern of the list is tried
extractField_FirstPatternOnly(t, patterns) ==
    IF patterns = <<>> THEN <<>>
    ELSE LET m == FindFrom(t, 1, Head(patterns))
         IN  IF m.ok THEN TrimSpace(m.val) ELSE <<>>

\* extractField: the trimmed group of the first pattern that matches
RECURSIVE extractField(_, _)
RECURSIVE fieldOrNext(_, _, _)
extractField(t, patterns) ==
    IF patterns = <<>> THEN <<>>
    ELSE fieldOrNext(FindFrom(t, 1, Head(patterns)), t, Tail(patterns))

fieldOrNext(m, t, patterns) ==
    IF m.ok THEN TrimSpace(m.val) ELSE extractField(t, patterns)

adiSoyadiPatterns ==
    << Pattern(Lit("ad^i") \o WS0 \o Lit("soyad^i") \o WS0 \o Colon, "rest"),
       Pattern(Lit("ad") \o One({"^i", "i"}) \o WS0 \o Lit("soyad") \o One({"^i", "i"})
               \o WS0 \o Colon, "rest") >>

ticaretUnvaniPatterns ==
    << Pattern(Lit("ticaret") \o WS0 \o Lit("^unvan^i") \o WS0 \o Colon, "rest"),
       Pattern(Lit("ticaret") \o WS1 \o Lit("^unvan") \o One({"^i", "i"})
               \o WS0 \o Colon, "rest") >>

isYeriAdresiPatterns ==
    << Pattern(Lit("i^s") \o WS0 \o Lit("yeri") \o WS0 \o Lit("adresi") \o WS0 \o Colon,
               "rest"),
       Pattern(One({"i", "^I"}) \o Lit("^s") \o WS0 \o Lit("yeri") \o WS0
               \o Lit("adresi") \o WS0 \o Colon, "rest") >>

vergiDairesiPatterns ==
    << Pattern(Lit("vergi") \o WS0 \o Lit("dairesi") \o WS0 \o Colon, "rest") >>

vergiKimlikNoPatterns ==
    << Pattern(Lit("vergi") \o WS0 \o Lit("kimlik") \o WS0 \o Lit("no") \o WS0 \o Colon,
               "d10"),
       Pattern(Lit("v") \o Opt({"."}) \o Lit("k") \o Opt({"."}) \o Lit("n") \o Opt({"."})
               \o WS0 \o Colon, "d10") >>

tcKimlikNoPatterns ==
    << Pattern(Lit("t") \o Opt({"."}) \o Lit("c") \o Opt({"."}) \o WS0 \o Lit("kimlik")
               \o WS0 \o Lit("no") \o WS0 \o Colon, "d11"),
       Pattern(Lit("tckn") \o WS0 \o Colon, "d11"),
       Pattern(Lit("tc") \o WS0 \o Lit("k") \o One({"i", "^I"}) \o Lit("ml")
               \o One({"i", "^I"}) \o Lit("k") \o WS0 \o Lit("no") \o WS0
               \o Opt({":", "^:"}), "d11"),
       Pattern(Lit("t.c.") \o WS0 \o Lit("k") \o One({"i", "^I"}) \o Lit("ml")
               \o One({"i", "^I"}) \o Lit("k") \o WS0 \o Lit("no") \o WS0
               \o Opt({":", "^:"}), "d11") >>

iseBaslamaPatterns ==
    << Pattern(Lit("i^se") \o WS0 \o Lit("ba^slama") \o WS0 \o Lit("tarihi") \o WS0
               \o Colon, "date"),
       Pattern(One({"i", "^I"}) \o Lit("^se") \o WS0 \o Lit("ba^slama") \o WS0
               \o Lit("tarihi") \o WS0 \o Colon, "date") >>

(***************************************************************************)
(* parseGIBFormat and parseDate                                            *)
(***************************************************************************)
\* [A-Z and the six capital Turkish letters]
UpperTr == AsciiUpper \cup {"^C", "^G", "^I", "^O", "^S", "^U"}

\* [A-Z..a-z..\s] of the activity pattern
ActivityChars ==
    UpperTr \cup AsciiLower \cup {"^c", "^g", "^i", "^o", "^s", "^u"} \cup SpaceChars

Digit == Exact(One({"0", "1", "2", "3", "4", "5", "6", "7", "8", "9"}))

RECURSIVE Times(_, _)
Times(atoms, n) == IF n = 0 THEN <<>> ELSE atoms \o Times(atoms, n - 1)

\* the position after the first of the alternatives that matches at q, 0 if none
RECURSIVE FirstAlt(_, _, _)
RECURSIVE altOrNext(_, _, _, _)
FirstAlt(t, q, alts) ==
    IF alts = <<>> THEN 0
    ELSE altOrNext(MatchAtoms(t, q, Head(alts)), t, q, Tail(alts))

altOrNext(j, t, q, alts) == IF j # 0 THEN j ELSE FirstAlt(t, q, alts)

\* a lazy group (.+? when dot, [ActivityChars]+? otherwise) that begins at
\* position k, followed by one of alts: the position e of the last character
\* of the shortest group, 0 if there is none
RECURSIVE LazyRun(_, _, _, _, _)
LazyRun(t, k, e, dot, alts) ==
    IF e > Len(t) THEN 0
    ELSE IF dot /\ t[e] = "\n" THEN 0
    ELSE IF ~dot /\ t[e] \notin ActivityChars THEN 0
    ELSE IF FirstAlt(t, e + 1, alts) # 0 THEN e
    ELSE LazyRun(t, k, e + 1, dot, alts)

\* the lazy group after a head that ended before position k (0: no head)
LazyFrom(t, k, dot, alts) == IF k = 0 THEN 0 ELSE LazyRun(t, k, k, dot, alts)

\* the group t[k..e], when there is one
Span(t, k, e) == IF e # 0 THEN Match(SubSeq(t, k, e)) ELSE NoMatch

\* MUKELLEFIN\s+(.+?)\s+[A-Z..]+\s+MAH
gibNameHead == ExactLit("M^UKELLEF^IN") \o Exact(WS1)

gibNameTail == <<Exact(WS1 \o Plus(UpperTr) \o WS1) \o ExactLit("MAH")>>

gibNameSpan(t, k) == Span(t, k, LazyFrom(t, k, TRUE, gibNameTail))

gibNameAt(t, i) == gibNameSpan(t, MatchAtoms(t, i, gibNameHead))

gibName(t, i) == FirstMatch(t, i, LAMBDA q : gibNameAt(t, q))

\* ([A-Z..]+\s+MAH\.?\s+.+?(?:ISTANBUL|...|KONYA)), the cities with both
\* spellings of the capital I
gibAddrHead ==
    Exact(Plus(UpperTr) \o WS1) \o ExactLit("MAH") \o Exact(Opt({"."}) \o WS1)

gibCities ==
    <<ExactLit("^ISTANBUL"), ExactLit("ISTANBUL"), ExactLit("ANKARA"),
      ExactLit("^IZM^IR"), ExactLit("IZMIR"), ExactLit("BURSA"), ExactLit("ANTALYA"),
      ExactLit("KONYA")>>

gibAddressSpan(t, i, e) ==
    IF e # 0 THEN Match(SubSeq(t, i, FirstAlt(t, e + 1, gibCities) - 1)) ELSE NoMatch

gibAddressAt(t, i) ==
    gibAddressSpan(t, i, LazyFrom(t, MatchAtoms(t, i, gibAddrHead), TRUE, gibCities))

gibAddress(t, i) == FirstMatch(t, i, LAMBDA q : gibAddressAt(t, q))

\* addr[:idx] when strings.Index(addr, word) = idx > 0, trimmed
CutAt(addr, word) ==
    IF IndexOf(addr, word) > 1 THEN TrimSpace(SubSeq(addr, 1, IndexOf(addr, word) - 1))
    ELSE addr

\* (?:YILLIK\s+GELIR\s+VERGISI|GELIR\s+VERGISI|KURUMLAR\s+VERGISI)\s+([A-Z..]+)\s+\d{11}
gibTaxHeads ==
    <<ExactLit("YILLIK") \o Exact(WS1) \o ExactLit("GEL^IR") \o Exact(WS1)
        \o ExactLit("VERG^IS^I") \o Exact(WS1),
      ExactLit("GEL^IR") \o Exact(WS1) \o ExactLit("VERG^IS^I") \o Exact(WS1),
      ExactLit("KURUMLAR") \o Exact(WS1) \o ExactLit("VERG^IS^I") \o Exact(WS1)>>

gibTaxTail == Exact(WS1) \o Times(Digit, 11)

gibTaxOfficeRun(t, k, n) ==
    IF n > 0 /\ MatchAtoms(t, k + n, gibTaxTail) # 0
    THEN Match(SubSeq(t, k, k + n - 1))
    ELSE NoMatch

gibTaxOfficeSpan(t, k) ==
    gibTaxOfficeRun(t, k, IF k = 0 THEN 0
                          ELSE RunLength(t, k, Exact(Plus(UpperTr))[1], Unbounded))

gibTaxOfficeAt(t, i) == gibTaxOfficeSpan(t, FirstAlt(t, i, gibTaxHeads))

gibTaxOffice(t, i) == FirstMatch(t, i, LAMBDA q : gibTaxOfficeAt(t, q))

\* (\d{2}\.\d{2}\.\d{4}), the first match in the text
dottedDate ==
    Times(Digit, 2) \o ExactLit(".") \o Times(Digit, 2) \o ExactLit(".") \o Times(Digit, 4)

firstDate(t, i) ==
    LET p == FirstPos(t, i, LAMBDA q : MatchAtoms(t, q, dottedDate) # 0)
    IN  IF p = 0 THEN NoMatch ELSE Match(SubSeq(t, p, p + 9))

\* the number that the digits t[lo..hi] write
RECURSIVE NumOfDigits(_, _, _)
NumOfDigits(t, lo, hi) ==
    IF hi < lo THEN 0 ELSE NumOfDigits(t, lo, hi - 1) * 10 + DigitVal(t[hi])

daysIn(month, year) ==
    IF month \in {4, 6, 9, 11} THEN 30
    ELSE IF month # 2 THEN 31
    ELSE IF year % 4 = 0 /\ (year % 100 # 0 \/ year % 400 = 0) THEN 29
    ELSE 28

\* parseDate succeeds on a string dd?mm?yyyy: time.Parse wants the same
\* separator twice and a day that the month has
parseDateOk(d) ==
    /\ d[3] = d[6]
    /\ LET day == NumOfDigits(d, 1, 2)
           month == NumOfDigits(d, 4, 5)
           year == NumOfDigits(d, 7, 10)
       IN  month >= 1 /\ month <= 12 /\ day >= 1 /\ day <= daysIn(month, year)

\* (\d{6})\s*[-<en dash>]\s*([A-Z..a-z..\s]+?)(?:\s+TAKVIM|\s+TAKVIM|\s+BEYAN|\s+\d{4})
activityHead == Times(Digit, 6) \o Exact(WS0 \o One({"-", "^-"}) \o WS0)

activityTails ==
    <<Exact(WS1) \o ExactLit("TAKV^IM"), Exact(WS1) \o ExactLit("TAKVIM"),
      Exact(WS1) \o ExactLit("BEYAN"), Exact(WS1) \o Times(Digit, 4)>>

\* the match of the activity pattern that begins at position i
activitySpan(t, i, k, e) ==
    IF e = 0 THEN [ok |-> FALSE, Kod |-> <<>>, Ad |-> <<>>, next |-> i + 1]
    ELSE [ok |-> TRUE, Kod |-> SubSeq(t, i, i + 5),
          Ad |-> TrimSpace(SubSeq(t, k, e)),
          next |-> FirstAlt(t, e + 1, activityTails)]

activityFrom(t, i, k) == activitySpan(t, i, k, LazyFrom(t, k, FALSE, activityTails))

activityAt(t, i) == activityFrom(t, i, MatchAtoms(t, i, activityHead))

\* the matches of the activity pattern from position i on, as FindAll gives them
RECURSIVE activityMatches(_, _)
RECURSIVE activitiesFrom(_, _)
activityMatches(t, i) == activitiesFrom(t, FirstMatch(t, i, LAMBDA q : activityAt(t, q)))

activitiesFrom(t, m) ==
    IF ~m.ok THEN <<>>
    ELSE <<[Kod |-> m.Kod, Ad |-> m.Ad]>> \o activityMatches(t, m.next)

(***************************************************************************)
(* extractTaxTypes, extractActivities, extractTaxBases                     *)
(***************************************************************************)
\* taxTypeChecks: <<pattern, displayName>> in the order of the checks
taxTypeChecks ==
    << <<Str("y^ill^ik gelir vergisi"), Str("Y^ill^ik Gelir Vergisi")>>,
       <<Str("yillik gelir vergisi"), Str("Y^ill^ik Gelir Vergisi")>>,
       <<Str("kurumlar vergisi"), Str("Kurumlar Vergisi")>>,
       <<Str("katma de^ger vergisi"), Str("Katma De^ger Vergisi")>>,
       <<Str("katma deger vergisi"), Str("Katma De^ger Vergisi")>>,
       <<Str("ge^cici vergi"), Str("Ge^cici Vergi")>>,
       <<Str("gecici vergi"), Str("Ge^cici Vergi")>>,
       <<Str("damga vergisi"), Str("Damga Vergisi")>>,
       <<Str("muhtasar"), Str("Muhtasar")>>,
       <<Str("stopaj"), Str("Stopaj")>>,
       <<Str("ba^g-kur"), Str("Ba^g-Kur")>>,
       <<Str("bag-kur"), Str("Ba^g-Kur")>>,
       <<Str("sgk"), Str("SGK")>>,
       <<Str("kdv"), Str("KDV")>>,
       <<Str("gelir vergisi"), Str("Gelir Vergisi")>> >>

\* the checks whose pattern the lower-cased line contains
taxTypeHits(line) ==
    {k \in 1..Len(taxTypeChecks) : Contains(ToLower(line), taxTypeChecks[k][1])}

InSeq(x, seq) == \E k \in 1..Len(seq) : seq[k] = x

\* mutant: "Gelir Vergisi" is added also after "Y^ill^ik Gelir Vergisi"
RECURSIVE taxTypeLoop_KeepsGelir(_, _, _)
taxTypeLoop_KeepsGelir(hits, k, types) ==
    IF k > Len(taxTypeChecks) THEN types
    ELSE LET displayName == taxTypeChecks[k][2]
         IN  IF k \in hits /\ ~InSeq(displayName, types)
             THEN taxTypeLoop_KeepsGelir(hits, k + 1, Append(types, displayName))
             ELSE taxTypeLoop_KeepsGelir(hits, k + 1, types)

\* the loop over taxTypeChecks from check k on; hits: the checks whose pattern
\* the text contains
RECURSIVE taxTypeLoop(_, _, _)
taxTypeLoop(hits, k, types) ==
    IF k > Len(taxTypeChecks) THEN types
    ELSE LET displayName == taxTypeChecks[k][2]
         IN  IF k \in hits /\ ~InSeq(displayName, types)
                /\ ~(displayName = Str("Gelir Vergisi")
                     /\ InSeq(Str("Y^ill^ik Gelir Vergisi"), types))
             THEN taxTypeLoop(hits, k + 1, Append(types, displayName))
             ELSE taxTypeLoop(hits, k + 1, types)

\* s[:n] of Go on bytes: "^?" stands for the bytes of a character cut in two
RECURSIVE BytePrefix(_, _)
BytePrefix(s, n) ==
    IF s = <<>> \/ n <= 0 THEN <<>>
    ELSE IF ByteLen(Head(s)) <= n
    THEN <<Head(s)>> \o BytePrefix(Tail(s), n - ByteLen(Head(s)))
    ELSE <<"^?">>

\* strings.Index in bytes, -1 when sub does not occur
ByteIndex(s, sub) ==
    IF IndexOf(s, sub) = 0 THEN -1 ELSE StrLen(SubSeq(s, 1, IndexOf(s, sub) - 1))

cleanupPatterns == <<Str("TAKV^IM"), Str("TAKVIM"), Str("BEYAN"), Str("ONAY"), Str("MATRAH")>>

\* the loop over cleanupPatterns: the index is found in strings.ToUpper(ad)
\* and used in ad
RECURSIVE cleanup(_, _)
cleanup(ad, k) ==
    IF k > Len(cleanupPatterns) THEN ad
    ELSE LET idx == ByteIndex(ToUpper(ad), cleanupPatterns[k])
         IN  IF idx > 0 THEN cleanup(TrimSpace(BytePrefix(ad, idx)), k + 1)
             ELSE cleanup(ad, k + 1)

AsciiLetters == AsciiUpper \cup AsciiLower

\* \s+\d{4}\s*[A-Za-z]*$
yearRe == Exact(WS1) \o Times(Digit, 4) \o Exact(WS0 \o Star(AsciiLetters))

\* yearRe.ReplaceAllString(ad, "")
stripYear(ad) ==
    LET at == {q \in 1..Len(ad) : MatchAtoms(ad, q, yearRe) = Len(ad) + 1}
    IN  IF at = {} THEN ad
        ELSE SubSeq(ad, 1, (CHOOSE q \in at : \A r \in at : q <= r) - 1)

\* (\d{4,6})\s*[-<en dash>]\s*(.+) on one line, and what the loop body makes
\* of the match: the code, and the name after the clean-up
lineReHead == Exact(Atom(Digit[1].set, 4, 6) \o WS0 \o One({"-", "^-"}) \o WS0)

lineActivity(line) ==
    LET at == {i \in 1..Len(line) :
                  MatchAtoms(line, i, lineReHead) \in 1..Len(line)}
        i == CHOOSE j \in at : \A r \in at : j <= r
        k == MatchAtoms(line, i, lineReHead)
        kod == SubSeq(line, i, i + RunLength(line, i, Digit[1], 6) - 1)
        ad == TrimSpace(SubSeq(line, k, Len(line)))
    IN  IF at = {} THEN [ok |-> FALSE, Kod |-> <<>>, Ad |-> <<>>]
        ELSE [ok |-> TRUE, Kod |-> kod,
              Ad |-> TrimSpace(stripYear(cleanup(ad, 1)))]

\* mutant: no code counts as seen
HasKod_Never(kod, activities) == FALSE

\* seen[kod]
HasKod(kod, activities) == \E k \in 1..Len(activities) : activities[k].Kod = kod

\* the acceptance test of both loops of extractActivities
RECURSIVE addActivities(_, _)
addActivities(found, activities) ==
    IF found = <<>> THEN activities
    ELSE LET m == Head(found)
         IN  IF ~HasKod(m.Kod, activities) /\ StrLen(m.Ad) > 3
             THEN addActivities(Tail(found), Append(activities, m))
             ELSE addActivities(Tail(found), activities)

\* (\d{1,3}(?:[.,]\d{3})+(?:[.,]\d{2})?) at position a: the position after it,
\* 0 if none.  The digits before the first separator are a whole run of at
\* most three, the groups of three are as many as there are, and the group of
\* two is taken when it follows them.
Separator == Exact(One({".", ","}))

RECURSIVE groupsEnd(_, _)
groupsEnd(t, q) ==
    IF MatchAtoms(t, q, Separator \o Times(Digit, 3)) # 0
    THEN groupsEnd(t, q + 4) ELSE q

amountTail(t, g) ==
    IF MatchAtoms(t, g, Separator \o Times(Digit, 2)) # 0 THEN g + 3 ELSE g

amountGroups(t, a, r, g) == IF r < 1 \/ r > 3 \/ g = a + r THEN 0 ELSE amountTail(t, g)

amountRun(t, a, r) == amountGroups(t, a, r, groupsEnd(t, a + r))

amountEnd(t, a) == amountRun(t, a, RunLength(t, a, Digit[1], 4))

\* (?m)(\d{4})\s+(?:y<i>l<i>\s+)?(amount)\s*(?:TL|<lira>)? at position i
yearHead == Times(Digit, 4) \o Exact(WS1)

yiliWord == ExactLit("y^il^i") \o Exact(WS1)

wordOrNone(w, y) == IF w # 0 THEN w ELSE y

\* where the amount begins, y being the position after the year and its space
amountStart(t, y) == IF y = 0 THEN 0 ELSE wordOrNone(MatchAtoms(t, y, yiliWord), y)

taxBaseSpan(t, i, a, e) ==
    IF e = 0 THEN [ok |-> FALSE, year |-> <<>>, amount |-> <<>>, next |-> i + 1]
    ELSE [ok |-> TRUE, year |-> SubSeq(t, i, i + 3), amount |-> SubSeq(t, a, e - 1),
          next |-> e]

taxBaseFrom(t, i, a) == taxBaseSpan(t, i, a, IF a = 0 THEN 0 ELSE amountEnd(t, a))

taxBaseAt(t, i) == taxBaseFrom(t, i, amountStart(t, MatchAtoms(t, i, yearHead)))

\* re.FindAllStringSubmatch(text, -1): the matches from position i on
RECURSIVE taxBaseMatches(_, _)
RECURSIVE taxBasesFrom(_, _)
taxBaseMatches(t, i) == taxBasesFrom(t, FirstMatch(t, i, LAMBDA q : taxBaseAt(t, q)))

taxBasesFrom(t, m) == IF ~m.ok THEN <<>> ELSE <<m>> \o taxBaseMatches(t, m.next)

\* strings.ReplaceAll(s, ".", ""), then "," becomes "."
RECURSIVE amountStr(_)
amountStr(s) ==
    IF s = <<>> THEN <<>>
    ELSE IF Head(s) = "." THEN amountStr(Tail(s))
    ELSE IF Head(s) = "," THEN <<".">> \o amountStr(Tail(s))
    ELSE <<Head(s)>> \o amountStr(Tail(s))

\* the digits s without their trailing zeros
RECURSIVE stripZeros(_)
stripZeros(s) ==
    IF s = <<>> THEN <<>>
    ELSE IF s[Len(s)] = "0" THEN stripZeros(SubSeq(s, 1, Len(s) - 1))
    ELSE s

\* strconv.ParseFloat of digits with decimal points: an error with more than
\* one point; otherwise the number, as its whole part and the digits of its
\* fraction (a float64 holds the amounts of the model exactly enough to
\* compare them with 1000 as the decimal numbers compare)
ParseFloat(s) ==
    LET points == {i \in 1..Len(s) : s[i] = "."}
        p == IF points = {} THEN Len(s) + 1 ELSE CHOOSE i \in points : TRUE
    IN  IF Cardinality(points) > 1 THEN [ok |-> FALSE, val |-> <<>>]
        ELSE [ok |-> TRUE,
              val |-> [whole |-> NumOfDigits(s, 1, p - 1),
                       frac |-> stripZeros(SubSeq(s, p + 1, Len(s)))]]

\* amount < 1000 and amount > 1000
Below1000(amount) == amount.whole < 1000

Above1000(amount) == amount.whole > 1000 \/ (amount.whole = 1000 /\ amount.frac # <<>>)

\* mutant: amounts below 1000 are kept too
taxBaseSkipped_Never(amount) == FALSE

\* the test "if amount < 1000 { continue }"
taxBaseSkipped(amount) == Below1000(amount)

\* the loop over the matches
RECURSIVE taxBaseLoop(_)
taxBaseLoop(matches) ==
    IF matches = <<>> THEN <<>>
    ELSE LET m == Head(matches)
             year == NumOfDigits(m.year, 1, 4)
             amount == ParseFloat(amountStr(m.amount))
         IN  IF year < 2000 \/ year > 2100 THEN taxBaseLoop(Tail(matches))
             ELSE IF ~amount.ok THEN taxBaseLoop(Tail(matches))
             ELSE IF taxBaseSkipped(amount.val) THEN taxBaseLoop(Tail(matches))
             ELSE <<[Yil |-> year, Tutar |-> amount.val]>> \o taxBaseLoop(Tail(matches))

\* mutant: the word is looked for in the text as it is written
extractTaxBases_CaseSensitive(t) ==
    IF Contains(t, Str("MATRAHSIZ")) THEN <<>>
    ELSE taxBaseLoop(taxBaseMatches(t, 1))

\* extractTaxBases on the text t
extractTaxBases(t) ==
    IF Contains(ToUpper(t), Str("MATRAHSIZ")) THEN <<>>
    ELSE taxBaseLoop(taxBaseMatches(t, 1))

(***************************************************************************)
(* What the parser tests on a single line                                  *)
(***************************************************************************)
companySuffixWords ==
    <<Str("^S^IRKET"), Str("SIRKET"), Str("L^IM^ITED"), Str("LIMITED"), Str("A.^S"),
      Str("A.S.")>>

unvanWords == <<Str("^UNVAN"), Str("NVANI"), Str("UNVANI")>>

vergiTrWords == <<Str("VERG^I TR"), Str("VERGI TR"), Str("VERG^IDA^I"), Str("VERGIDAI")>>

sanayiWords == <<Str("SANAY^I"), Str("SANAYI")>>

ticaretWords == <<Str("T^ICARET"), Str("TICARET")>>

addressFallbackMarkers ==
    <<Str("MAH."), Str("MAH "), Str("CAD."), Str("CAD "), Str("SOK."), Str("SOK "),
      Str("KAPI NO"), Str("^I^C KAPI"), Str("IC KAPI"), Str("YOLU CAD")>>

buildingWords ==
    <<Str("KAPI"), Str("DA^IRE"), Str("DAIRE"), Str("KAT"), Str("BLOK"), Str("TOWER"),
      Str("PLAZA"), Str("RESIDENCE"), Str("KONUT")>>

buildingNames ==
    <<Str("TRUMP TOWER"), Str("TOWER"), Str("PLAZA"), Str("CENTER"), Str("CENTRE"),
      Str("^I^S MERKEZ^I"), Str("IS MERKEZI")>>

notAddressWords ==
    <<Str("FAAL^IYET"), Str("FAALIYET"), Str("K^IML^IK"), Str("KIMLIK"),
      Str("TC K^IML^IK"), Str("TC KIMLIK")>>

nameLabelWords == <<Str("ADI SOYADI"), Str("ADISOYADI"), Str("ADI SOYAD^J")>>

notNameWords ==
    <<Str("T^ICARET"), Str("TICARET"), Str("VERG^I"), Str("VERGI"), Str("^I^S YER^I"),
      Str("IS YERI")>>

newBusinessWords == <<Str("Yeni i^se ba^slama"), Str("Yeni ise baslama")>>

\* the address test of the fallback loop of parseContent
hasAddressMarker(line) ==
    \/ containsAny(line, addressFallbackMarkers)
    \/ Contains(ToUpper(line), Str("NO:")) /\ containsAny(line, buildingWords)
    \/ containsAny(line, buildingNames)

\* the tests on a line and on strings.TrimSpace of it
LineTests(line) ==
    LET trimmed == TrimSpace(line)
    IN  [ line |-> line,
          trimmed |-> trimmed,
          blank |-> trimmed = <<>>,
          marker |-> isMarkerLine(trimmed),
          address |-> isAddressLine(trimmed),
          city |-> containsCityName(trimmed),
          taxTypeLine |-> containsAny(trimmed, taxTypeLineWords),
          taxTypeScan |-> containsAny(trimmed, taxTypeScanWords),
          date |-> dateRe(trimmed),
          tckn |-> tcknRe(trimmed),
          digitOnly |-> digitOnlyRe(trimmed),
          taxWord |-> containsAny(trimmed, taxWords),
          office |-> StrLen(trimmed) > 2 /\ ~containsAny(trimmed, webWords),
          banner |-> containsAny(line, bannerWords),
          companyLine |-> /\ ~(StrLen(trimmed) < 15)
                          /\ containsAny(line, companySuffixWords)
                          /\ ~containsAny(line, unvanWords)
                          /\ ~containsAny(line, vergiTrWords),
          industryLine |-> /\ ~(StrLen(trimmed) < 15)
                           /\ containsAny(line, sanayiWords)
                           /\ containsAny(line, ticaretWords)
                           /\ ~containsAny(line, unvanWords),
          addressFallback |-> /\ hasAddressMarker(line)
                              /\ ~containsAny(line, notAddressWords),
          nameLabel |-> containsAny(line, nameLabelWords),
          nameCandidate |-> StrLen(trimmed) > 3 /\ ~containsAny(trimmed, notNameWords),
          taxTypes |-> taxTypeHits(line),
          activity |-> lineActivity(line),
          newBusiness |-> containsAny(line, newBusinessWords) ]

(***************************************************************************)
(* The lines of the documents of the model                                 *)
(***************************************************************************)
lBlank == Str("")
lBanner == Str("VERG^I LEVHASI")
lMarker == Str("M^UKELLEF^IN")
lPerson == Str("AHMET YILMAZ")
lCompany == Str("ACME YAZILIM L^IM^ITED ^S^IRKET^I")
lAddress == Str("ATAT^URK MAH. G^UL SOK. NO:5")
lCity == Str("^CANKAYA/ANKARA")
lAddressCity == Str("YEN^I ^CA^G MAH. G^UL SOK. NO:5 ANKARA")
lKurumlar == Str("KURUMLAR VERG^IS^I")
lGelir == Str("YILLIK GEL^IR VERG^IS^I")
lOffice == Str("^CANKAYA")
lDate == Str("01.02.2020")
lTckn == Str("12345678901")
lVknRaw == Str("8589706200")
lAdi == Str("Ad^i Soyad^i: Ali ^Ornek")
lUnvan == Str("Ticaret ^Unvan^i: ACME A.^S.")
lDaire == Str("Vergi Dairesi: ^Ornek VD")
lVkn == Str("\tVergi Kimlik No: 1234567890")
lAdres == Str("^I^s Yeri Adresi: ^Ornek Cad. No:1")
lKurumlarLower == Str("Kurumlar Vergisi")
lAct == Str("620100 - B^ILG^ISAYAR PROGRAMLAMA")
lActAgain == Str("620100 - YAZILIM GEL^I^ST^IRME")
lActShort == Str("620100 - AB")
lActOther == Str("471101 - BAKKAL VE MARKET")
lTaxBase == Str("2020 1.000,00")
lTaxBaseBelow == Str("2021 0.999,99")
lTaxBaseAbove == Str("2022 y^il^i 1.000,01 TL")
lNewBiz == Str("Yeni i^se ba^slama")
lMatrahsiz == Str("2020 Matrahs^iz 2021 Matrahs^iz")
lVknDated == Str("1501202300")
lVknZero == Str("0123456789")
lVknInline == Str("No 0123456789 /A")

\* the line Parse adds to the text for the identifier the recovery found
lRecovered(vkn) == Str("VKN: ") \o vkn

\* the two cases of each letter of "Matrahs<i>z": the capital of the dotless
\* i is I
MatrahsizLetters ==
    << {"m", "M"}, {"a", "A"}, {"t", "T"}, {"r", "R"}, {"a", "A"}, {"h", "H"},
       {"s", "S"}, {"^i", "I"}, {"z", "Z"} >>

\* the spellings of the first k letters
RECURSIVE Spellings(_)
Spellings(k) ==
    IF k = 0 THEN {<<>>}
    ELSE {Append(w, c) : w \in Spellings(k - 1), c \in MatrahsizLetters[k]}

MatrahsizSpellings == Spellings(Len(MatrahsizLetters))

DocLines ==
    { lBlank, lBanner, lMarker, lPerson, lCompany, lAddress, lCity, lAddressCity, lKurumlar,
      lGelir, lOffice, lDate, lTckn, lVknRaw, lAdi, lUnvan, lDaire, lVkn, lAdres,
      lKurumlarLower, lAct, lActAgain, lActShort, lActOther, lTaxBase,
      lTaxBaseBelow, lTaxBaseAbove, lNewBiz, lMatrahsiz }
    \cup MatrahsizSpellings
    \cup {lRecovered(v) : v \in {tVknA, tDate}}
    \cup {lVknDated, lVknZero, lVknInline}

\* the line tests of every line of the model
LineFacts == [l \in DocLines |-> LineTests(l)]

\* strings.Split(text, "\n"): the lines of a text, each with its tests
Lines(t) == [k \in DOMAIN t |-> LineFacts[t[k]]]

\* the text of the lines
Flat(lines) == Join([k \in DOMAIN lines |-> lines[k].line], <<"\n">>)

(***************************************************************************)
(* parseLineBasedFormat                                                    *)
(***************************************************************************)
NewVergiLevhasi ==
    [ AdiSoyadi |-> <<>>, TicaretUnvani |-> <<>>, IsYeriAdresi |-> <<>>,
      VergiDairesi |-> <<>>, VergiKimlikNo |-> <<>>, TCKimlikNo |-> <<>>,
      IseBaslamaTarihi |-> <<>>, VergiTuru |-> <<>>, FaaliyetKodlari |-> <<>>,
      GecmisMatra |-> <<>> ]

\* the index of the first marker line, -1 when there is none
RECURSIVE mukellefinIdx(_, _)
mukellefinIdx(lines, i) ==
    IF i >= Len(lines) THEN -1
    ELSE IF At(lines, i).marker THEN i
    ELSE mukellefinIdx(lines, i + 1)

\* the loop that collects the name lines: <<nameLines, addressStartIdx>>
RECURSIVE nameLoop(_, _, _, _, _)
RECURSIVE nameLine(_, _, _, _, _, _)
nameLoop(lines, i, limit, nameLines, addressStartIdx) ==
    IF ~(i < Len(lines) /\ i < limit) THEN <<nameLines, addressStartIdx>>
    ELSE nameLine(lines, i, limit, nameLines, addressStartIdx, At(lines, i))

\* the body of the name loop on the line with the tests f
nameLine(lines, i, limit, nameLines, addressStartIdx, f) ==
    IF f.blank THEN nameLoop(lines, i + 1, limit, nameLines, addressStartIdx)
    ELSE IF f.address THEN <<nameLines, i>>
    ELSE nameLoop(lines, i + 1, limit, Append(nameLines, f.trimmed), i + 1)

\* the loop that collects the address lines: <<addressLines, vergiTuruIdx>>
RECURSIVE addressLoop(_, _, _, _, _)
RECURSIVE addressLine(_, _, _, _, _, _)
addressLoop(lines, i, limit, addressLines, vergiTuruIdx) ==
    IF ~(i < Len(lines) /\ i < limit) THEN <<addressLines, vergiTuruIdx>>
    ELSE addressLine(lines, i, limit, addressLines, vergiTuruIdx,
                     At(lines, i))

\* the body of the address loop on the line with the tests f
addressLine(lines, i, limit, addressLines, vergiTuruIdx, f) ==
    IF f.blank THEN addressLoop(lines, i + 1, limit, addressLines, vergiTuruIdx)
    ELSE IF f.taxTypeLine THEN <<addressLines, i>>
    ELSE IF Len(addressLines) <= 1
            /\ (IF Len(addressLines) = 0 THEN f.address ELSE f.city)
    THEN addressLoop(lines, i + 1, limit, Append(addressLines, f.trimmed),
                     vergiTuruIdx)
    ELSE IF Len(addressLines) >= 1 THEN <<addressLines, i>>
    ELSE addressLoop(lines, i + 1, limit, addressLines, vergiTuruIdx)

\* the scan for the tax type line from the address start on, 0 when not found
RECURSIVE taxTypeScan(_, _)
taxTypeScan(lines, i) ==
    IF i >= Len(lines) THEN 0
    ELSE IF At(lines, i).taxTypeScan THEN i
    ELSE taxTypeScan(lines, i + 1)

\* the scan for the tax office after the tax type line
RECURSIVE officeLoop(_, _, _)
RECURSIVE officeLine(_, _, _, _)
officeLoop(lines, i, limit) ==
    IF ~(i < Len(lines) /\ i < limit) THEN NoMatch
    ELSE officeLine(lines, i, limit, At(lines, i))

\* the body of the tax office loop on the line with the tests f
officeLine(lines, i, limit, f) ==
    IF f.date \/ f.tckn THEN NoMatch
    ELSE IF ~f.blank /\ ~f.digitOnly /\ ~f.taxWord /\ f.office THEN Match(f.trimmed)
    ELSE officeLoop(lines, i + 1, limit)

\* the fields that the line-based steps found
lineBasedFields(vl, fullName, addressLines, office) ==
    [vl EXCEPT
        !.TicaretUnvani = IF containsAny(fullName, companyWords) THEN fullName ELSE @,
        !.AdiSoyadi = IF containsAny(fullName, companyWords) THEN @ ELSE fullName,
        !.IsYeriAdresi = IF Len(addressLines) > 0
                         THEN Join(addressLines, <<" ">>) ELSE @,
        !.VergiDairesi = IF office.ok THEN office.val ELSE @]

\* the tax office, from the line after the tax type line
lineBasedOffice(vl, lines, nameLines, addressLines, vergiTuruIdx) ==
    LET office == IF vergiTuruIdx > 0 /\ vergiTuruIdx + 1 < Len(lines)
                  THEN officeLoop(lines, vergiTuruIdx + 1, vergiTuruIdx + 5)
                  ELSE NoMatch
    IN  IF Len(nameLines) > 0
        THEN lineBasedFields(vl, Join(nameLines, <<" ">>), addressLines, office)
        ELSE [vl EXCEPT
                !.IsYeriAdresi = IF Len(addressLines) > 0
                                 THEN Join(addressLines, <<" ">>) ELSE @,
                !.VergiDairesi = IF office.ok THEN office.val ELSE @]

\* the tax type line: where the address loop stopped, else the first line
\* from the address start on that names a tax
lineBasedTaxType(vl, lines, nameLines, addressStartIdx, addr) ==
    lineBasedOffice(vl, lines, nameLines, addr[1],
                    IF addr[2] = 0 THEN taxTypeScan(lines, addressStartIdx) ELSE addr[2])

\* the address lines, from where the name loop stopped
lineBasedAddress(vl, lines, nameLines, addressStartIdx) ==
    lineBasedTaxType(vl, lines, nameLines, addressStartIdx,
                     addressLoop(lines, addressStartIdx, addressStartIdx + 3, <<>>, 0))

\* the name lines, from the line after the marker line
lineBasedNames(vl, lines, names) == lineBasedAddress(vl, lines, names[1], names[2])

lineBasedFrom(vl, lines, mIdx) ==
    IF mIdx = -1 \/ mIdx + 1 >= Len(lines) THEN vl
    ELSE lineBasedNames(vl, lines, nameLoop(lines, mIdx + 1, mIdx + 4, <<>>, 0))

parseLineBasedFormat(vl, lines) == lineBasedFrom(vl, lines, mukellefinIdx(lines, 0))

(***************************************************************************)
(* parseGIBFormat                                                          *)
(***************************************************************************)
parseGIBFormat(vl, lines) ==
    LET t == Flat(lines)
        name == IF vl.AdiSoyadi = <<>> /\ vl.TicaretUnvani = <<>>
                THEN gibName(t, 1) ELSE NoMatch
        addrMatch == gibAddress(t, 1)
        addr == CutAt(CutAt(TrimSpace(addrMatch.val), Str(" YILLIK")), Str(" KURUMLAR"))
        office == IF vl.VergiDairesi = <<>> THEN gibTaxOffice(t, 1) ELSE NoMatch
        date == firstDate(t, 1)
        acts == activityMatches(t, 1)
    IN  IF ~\E k \in 1..Len(lines) : lines[k].banner THEN vl
        ELSE [vl EXCEPT
                !.AdiSoyadi = IF name.ok /\ StrLen(TrimSpace(name.val)) > 3
                              THEN TrimSpace(name.val) ELSE @,
                !.IsYeriAdresi = IF addrMatch.ok /\ StrLen(addr) > 20 THEN addr ELSE @,
                !.VergiDairesi = IF office.ok THEN TrimSpace(office.val) ELSE @,
                !.IseBaslamaTarihi = IF date.ok /\ parseDateOk(date.val)
                                     THEN date.val ELSE @,
                !.FaaliyetKodlari = IF Len(acts) > 0 THEN <<acts[1]>> ELSE @]

(***************************************************************************)
(* parseContent, in the order of its steps                                 *)
(***************************************************************************)

\* the colon-labelled fields: each is looked for only while it is empty
\* mutant: a label's value replaces the value an earlier step found
labeledFields_Overwrite(vl, t) ==
    LET found(patterns, old) ==
            IF extractField(t, patterns) # <<>> THEN extractField(t, patterns) ELSE old
    IN  [vl EXCEPT
            !.AdiSoyadi = found(adiSoyadiPatterns, @),
            !.TicaretUnvani = found(ticaretUnvaniPatterns, @),
            !.IsYeriAdresi = found(isYeriAdresiPatterns, @),
            !.VergiDairesi = found(vergiDairesiPatterns, @),
            !.VergiKimlikNo = found(vergiKimlikNoPatterns, @),
            !.TCKimlikNo = found(tcKimlikNoPatterns, @)]

labeledFields(vl, t) ==
    LET dateStr == extractField(t, iseBaslamaPatterns)
    IN  [vl EXCEPT
            !.AdiSoyadi = IF @ = <<>> THEN extractField(t, adiSoyadiPatterns) ELSE @,
            !.TicaretUnvani = IF @ = <<>> THEN extractField(t, ticaretUnvaniPatterns)
                              ELSE @,
            !.IsYeriAdresi = IF @ = <<>> THEN extractField(t, isYeriAdresiPatterns) ELSE @,
            !.VergiDairesi = IF @ = <<>> THEN extractField(t, vergiDairesiPatterns) ELSE @,
            !.VergiKimlikNo = IF @ = <<>> THEN extractField(t, vergiKimlikNoPatterns)
                              ELSE @,
            !.TCKimlikNo = IF @ = <<>> THEN extractField(t, tcKimlikNoPatterns) ELSE @,
            !.IseBaslamaTarihi = IF dateStr # <<>> /\ parseDateOk(dateStr) THEN dateStr
                                 ELSE @]

\* the trimmed first line that has the line fact, "" when no line has it
RECURSIVE firstLineWith(_, _, _)
firstLineWith(lines, k, fact) ==
    IF k > Len(lines) THEN <<>>
    ELSE IF lines[k][fact] THEN lines[k].trimmed
    ELSE firstLineWith(lines, k + 1, fact)

\* (?m)^(\d{n})$, then \b(\d{n})\b
boundedRunAt(t, i, n) ==
    /\ i + n - 1 <= Len(t)
    /\ AllDigits(t, i, i + n - 1)
    /\ (i = 1 \/ ~IsWordChar(t[i - 1]))
    /\ (i + n > Len(t) \/ ~IsWordChar(t[i + n]))

boundedRun(t, i, n) ==
    LET p == FirstPos(t, i, LAMBDA q : boundedRunAt(t, q, n))
    IN  IF p = 0 THEN <<>> ELSE SubSeq(t, p, p + n - 1)

digitLine(lines, n) ==
    LET at == {k \in 1..Len(lines) :
                  Len(lines[k].line) = n /\ AllDigits(lines[k].line, 1, n)}
    IN  IF at = {} THEN <<>> ELSE lines[CHOOSE k \in at : \A j \in at : k <= j].line

rawNumber(lines, t, n) ==
    IF digitLine(lines, n) # <<>> THEN digitLine(lines, n) ELSE boundedRun(t, 1, n)

\* the fields looked for without a label
fallbackFields(vl, lines, t) ==
    LET company == firstLineWith(lines, 1, "companyLine")
        industry == firstLineWith(lines, 1, "industryLine")
        date == firstDate(t, 1)
    IN  [vl EXCEPT
            !.TicaretUnvani = IF @ # <<>> THEN @
                              ELSE IF company # <<>> THEN company
                              ELSE industry,
            !.IsYeriAdresi = IF @ = <<>> THEN firstLineWith(lines, 1, "addressFallback")
                             ELSE @,
            !.VergiKimlikNo = IF @ = <<>> THEN rawNumber(lines, t, 10) ELSE @,
            !.TCKimlikNo = IF @ = <<>> THEN rawNumber(lines, t, 11) ELSE @,
            !.IseBaslamaTarihi = IF @ = <<>> /\ date.ok /\ parseDateOk(date.val)
                                 THEN date.val ELSE @]

reconcileWords ==
    <<Str("T^ICARET"), Str("TICARET"), Str("NVANI"), Str("^UNVANI"), Str("UNVANI")>>

\* the name on one of the two lines after the first name-label line
nameAfterLabel(lines) ==
    LET labels == {i \in 0..(Len(lines) - 1) : At(lines, i).nameLabel}
        i == CHOOSE x \in labels : \A y \in labels : x <= y
        cands == {j \in (i + 1)..(i + 2) :
                     j < Len(lines) /\ At(lines, j).nameCandidate}
    IN  IF labels = {} \/ cands = {} THEN <<>>
        ELSE At(lines, CHOOSE x \in cands : \A y \in cands : x <= y).trimmed

\* a personal name that is a label is dropped; a name is looked for after a
\* name label when no name was found
reconcileNames(vl, lines) ==
    LET dropped == /\ vl.TicaretUnvani # <<>> /\ vl.AdiSoyadi # <<>>
                   /\ containsAny(ToUpper(vl.AdiSoyadi), reconcileWords)
        adi == IF dropped THEN <<>> ELSE vl.AdiSoyadi
    IN  [vl EXCEPT !.AdiSoyadi = IF vl.TicaretUnvani = <<>> /\ adi = <<>>
                                 THEN nameAfterLabel(lines) ELSE adi]

extractTaxTypes(lines) ==
    taxTypeLoop(UNION {lines[k].taxTypes : k \in 1..Len(lines)}, 1, <<>>)

RECURSIVE lineActivities(_, _)
lineActivities(lines, k) ==
    IF k > Len(lines) THEN <<>>
    ELSE LET m == lines[k].activity
         IN  (IF m.ok THEN <<[Kod |-> m.Kod, Ad |-> m.Ad]>> ELSE <<>>)
             \o lineActivities(lines, k + 1)

extractActivities(lines, t) ==
    LET activities == addActivities(lineActivities(lines, 1), <<>>)
    IN  IF Len(activities) = 0 THEN addActivities(activityMatches(t, 1), <<>>)
        ELSE activities

\* the entries of a new business: those above 1000
RECURSIVE validMatrahlar(_)
validMatrahlar(matrahlar) ==
    IF matrahlar = <<>> THEN <<>>
    ELSE (IF Above1000(Head(matrahlar).Tutar) THEN <<Head(matrahlar)>> ELSE <<>>)
         \o validMatrahlar(Tail(matrahlar))

extractLists(vl, lines, t) ==
    LET matrahlar == extractTaxBases(t)
        newBusiness == \E k \in 1..Len(lines) : lines[k].newBusiness
    IN  [vl EXCEPT !.VergiTuru = extractTaxTypes(lines),
                   !.FaaliyetKodlari = extractActivities(lines, t),
                   !.GecmisMatra = IF newBusiness THEN validMatrahlar(matrahlar)
                                   ELSE matrahlar]

isKurumsal(vl) ==
    \E k \in 1..Len(vl.VergiTuru) : Contains(ToLower(vl.VergiTuru[k]), Str("kurumlar"))

\* mutant: the individual branch clears the trade name when both names are set
resolveKind_Exclusive(vl) ==
    IF isKurumsal(vl)
    THEN IF vl.AdiSoyadi # <<>> /\ vl.TicaretUnvani = <<>>
         THEN [vl EXCEPT !.TicaretUnvani = vl.AdiSoyadi, !.AdiSoyadi = <<>>]
         ELSE IF vl.TicaretUnvani # <<>> THEN [vl EXCEPT !.AdiSoyadi = <<>>]
         ELSE vl
    ELSE IF vl.TicaretUnvani # <<>> /\ vl.AdiSoyadi = <<>>
         THEN [vl EXCEPT !.AdiSoyadi = vl.TicaretUnvani, !.TicaretUnvani = <<>>]
         ELSE [vl EXCEPT !.TicaretUnvani = <<>>]

\* mutant: every taxpayer is resolved as an individual
resolveKind_Individual(vl) ==
    IF vl.TicaretUnvani # <<>> /\ vl.AdiSoyadi = <<>>
    THEN [vl EXCEPT !.AdiSoyadi = vl.TicaretUnvani, !.TicaretUnvani = <<>>]
    ELSE vl

\* the taxpayer kind: corporate when a tax type names "kurumlar"
resolveKind(vl) ==
    IF isKurumsal(vl)
    THEN IF vl.AdiSoyadi # <<>> /\ vl.TicaretUnvani = <<>>
         THEN [vl EXCEPT !.TicaretUnvani = vl.AdiSoyadi, !.AdiSoyadi = <<>>]
         ELSE IF vl.TicaretUnvani # <<>> THEN [vl EXCEPT !.AdiSoyadi = <<>>]
         ELSE vl
    ELSE IF vl.TicaretUnvani # <<>> /\ vl.AdiSoyadi = <<>>
         THEN [vl EXCEPT !.AdiSoyadi = vl.TicaretUnvani, !.TicaretUnvani = <<>>]
         ELSE vl

\* parseContent: the steps in their order
parseContent(lines) ==
    LET t == Flat(lines)
        a == parseLineBasedFormat(NewVergiLevhasi, lines)
        b == parseGIBFormat(a, lines)
        c == labeledFields(b, t)
        d == fallbackFields(c, lines, t)
        e == reconcileNames(d, lines)
        f == extractLists(e, lines, t)
    IN resolveKind(f)

(***************************************************************************)
(* Specification SpecParse: parseContent on the texts of the model         *)
(***************************************************************************)
MaxLabeled == 4

MaxListed == 3

\* the lines after the marker: name, address, tax type and office
NameBlocks == { <<>>, <<lPerson>>, <<lCompany>>, <<lBlank, lPerson>> }

AddressBlocks == { <<>>, <<lAddress>>, <<lAddress, lCity>>, <<lAddressCity>> }

TaxBlocks == { <<>>, <<lKurumlar, lOffice, lDate>>, <<lGelir, lVknRaw, lOffice, lTckn>> }

MarkerTexts ==
    { <<lMarker>> \o n \o a \o x : n \in NameBlocks, a \in AddressBlocks, x \in TaxBlocks }

\* the lines with a label, and a tax type
LabeledLines == { lAdi, lUnvan, lDaire, lVkn, lAdres, lKurumlarLower }

\* the lines of the activity codes and of the tax bases
ListedLines ==
    { lAct, lActAgain, lActShort, lActOther, lTaxBase, lTaxBaseBelow,
      lTaxBaseAbove, lNewBiz, lMatrahsiz }

SeqsUpTo(S, n) == UNION { [1..k -> S] : k \in 0..n }

\* a tax base line and one spelling of the word, in both orders
MatrahsizTexts ==
    UNION { {<<lTaxBaseAbove, w>>, <<w, lTaxBaseAbove>>} : w \in MatrahsizSpellings }

\* a 10-digit number without a label, alone or after a line of text
RawNumberTexts ==
    UNION { {<<n>>, <<lOffice, n>>} : n \in {lVknRaw, lVknDated, lVknZero, lVknInline} }

Texts ==
    SeqsUpTo(LabeledLines, MaxLabeled)
    \cup { m \o l : m \in MarkerTexts, l \in SeqsUpTo(LabeledLines, 1) }
    \cup { <<lBanner>> \o m : m \in MarkerTexts }
    \cup SeqsUpTo(ListedLines, MaxListed)
    \cup MatrahsizTexts
    \cup RawNumberTexts

ParseInit ==
    /\ content \in {Lines(t) : t \in Texts}
    /\ levha = NewVergiLevhasi
    /\ stage = "lineBased"
    /\ VknIdle /\ RecIdle /\ ClsIdle /\ FnIdle /\ ConcIdle

\* parseLineBasedFormat: the lines after the marker line
LineBased ==
    /\ stage = "lineBased"
    /\ levha' = parseLineBasedFormat(levha, content)
    /\ stage' = "gib"
    /\ UNCHANGED <<content, vknVars, recVars, clsVars, fnVars, concVars>>

\* parseGIBFormat: the patterns of the printed certificate
GIBFormat ==
    /\ stage = "gib"
    /\ levha' = parseGIBFormat(levha, content)
    /\ stage' = "labeled"
    /\ UNCHANGED <<content, vknVars, recVars, clsVars, fnVars, concVars>>

\* the labelled patterns, for the fields still empty
Labeled ==
    /\ stage = "labeled"
    /\ levha' = labeledFields(levha, Flat(content))
    /\ stage' = "fallback"
    /\ UNCHANGED <<content, vknVars, recVars, clsVars, fnVars, concVars>>

\* the line scans for the fields still empty
Fallback ==
    /\ stage = "fallback"
    /\ levha' = fallbackFields(levha, content, Flat(content))
    /\ stage' = "reconcile"
    /\ UNCHANGED <<content, vknVars, recVars, clsVars, fnVars, concVars>>

\* a personal name that is trade vocabulary is dropped; the name after a label
Reconcile ==
    /\ stage = "reconcile"
    /\ levha' = reconcileNames(levha, content)
    /\ stage' = "extract"
    /\ UNCHANGED <<content, vknVars, recVars, clsVars, fnVars, concVars>>

\* tax types, activity codes and tax bases
ExtractLists ==
    /\ stage = "extract"
    /\ levha' = extractLists(levha, content, Flat(content))
    /\ stage' = "resolve"
    /\ UNCHANGED <<content, vknVars, recVars, clsVars, fnVars, concVars>>

\* the taxpayer kind decides which name is kept
ResolveKind ==
    /\ stage = "resolve"
    /\ levha' = resolveKind(levha)
    /\ stage' = "done"
    /\ UNCHANGED <<content, vknVars, recVars, clsVars, fnVars, concVars>>

ParseNext ==
    \/ LineBased
    \/ GIBFormat
    \/ Labeled
    \/ Fallback
    \/ Reconcile
    \/ ExtractLists
    \/ ResolveKind

SpecParse == ParseInit /\ [][ParseNext]_vars

(***************************************************************************)
(* C1: after parseContent the record never has both TicaretUnvani and      *)
(* AdiSoyadi non-empty.                                                    *)
(***************************************************************************)
C1_NamesExclusive ==
    stage = "done" => ~(levha.TicaretUnvani # <<>> /\ levha.AdiSoyadi # <<>>)

(***************************************************************************)
(* C2: the fields that a label and the line positions can both give        *)
(***************************************************************************)
C2Fields == {"AdiSoyadi", "TicaretUnvani", "IsYeriAdresi", "VergiDairesi"}

\* the value after the colon of the field's label in the text
LabelValue(f) ==
    extractField(Flat(content),
                 CASE f = "AdiSoyadi" -> adiSoyadiPatterns
                   [] f = "TicaretUnvani" -> ticaretUnvaniPatterns
                   [] f = "IsYeriAdresi" -> isYeriAdresiPatterns
                   [] f = "VergiDairesi" -> vergiDairesiPatterns)

\* the values that the line positions after the marker give
LineValues == parseLineBasedFormat(NewVergiLevhasi, content)

Matrahlar == levha.GecmisMatra

HasLine(l) == \E k \in 1..Len(content) : content[k].line = l

SpelledAt(t, i) ==
    /\ i + Len(MatrahsizLetters) - 1 <= Len(t)
    /\ \A k \in 1..Len(MatrahsizLetters) : t[i + k - 1] \in MatrahsizLetters[k]

HasMatrahsiz(t) == \E i \in 1..Len(t) : SpelledAt(t, i)

C6_MatrahsizNoEntries ==
    stage \in {"resolve", "done"} /\ HasMatrahsiz(Flat(content)) =>
        extractTaxBases(Flat(content)) = <<>> /\ Matrahlar = <<>>

\* the word in small letters beside a year and an amount that are an entry
\* without it
C6_Witness ==
    /\ stage = "done"
    /\ HasLine(Str("matrahs^iz"))
    /\ taxBaseLoop(taxBaseMatches(Flat(content), 1)) # <<>>
    /\ Matrahlar = <<>>

(***************************************************************************)
(* C7: no two entries of FaaliyetKodlari have the same code, and the entry *)
(* of a code is its first line with an accepted description.               *)
(***************************************************************************)
Faaliyetler == levha.FaaliyetKodlari

\* the line has a code and a description of more than three bytes
AcceptedLine(k) == content[k].activity.ok /\ StrLen(content[k].activity.Ad) > 3

FirstAccepted(kod) ==
    CHOOSE k \in 1..Len(content) :
        /\ AcceptedLine(k) /\ content[k].activity.Kod = kod
        /\ \A j \in 1..(k - 1) : ~(AcceptedLine(j) /\ content[j].activity.Kod = kod)

C7_NoDuplicateCodes ==
    stage \in {"resolve", "done"} =>
        /\ \A i, j \in 1..Len(Faaliyetler) :
              i # j => Faaliyetler[i].Kod # Faaliyetler[j].Kod
        /\ \A k \in 1..Len(content) :
              AcceptedLine(k) =>
                  \E i \in 1..Len(Faaliyetler) :
                      /\ Faaliyetler[i].Kod = content[k].activity.Kod
                      /\ Faaliyetler[i].Ad =
                            content[FirstAccepted(content[k].activity.Kod)].activity.Ad

\* a code on two lines with two accepted descriptions, after a line where its
\* description is not accepted
C7_Witness ==
    /\ stage = "done"
    /\ \E h, i, j \in 1..Len(content) :
          /\ h < i /\ i < j
          /\ content[h].activity.ok /\ ~AcceptedLine(h)
          /\ AcceptedLine(i) /\ AcceptedLine(j)
          /\ content[h].activity.Kod = content[i].activity.Kod
          /\ content[i].activity.Kod = content[j].activity.Kod
          /\ content[i].activity.Ad # content[j].activity.Ad
          /\ Faaliyetler = <<[Kod |-> content[i].activity.Kod,
                              Ad |-> content[i].activity.Ad]>>

(***************************************************************************)
(* C10: a text without marker line and without corporate tax type that has *)
(* the lines "Ad<i> Soyad<i>: N", "Vergi Kimlik No: V" and "Vergi          *)
(* Dairesi: O" gives AdiSoyadi = N, VergiKimlikNo = V, VergiDairesi = O    *)
(* and an empty TicaretUnvani.                                             *)
(***************************************************************************)
ScenarioText ==
    /\ ~HasLine(lMarker)
    /\ ~HasLine(lKurumlar) /\ ~HasLine(lKurumlarLower)
    /\ HasLine(lAdi) /\ HasLine(lVkn) /\ HasLine(lDaire)

C10_LabeledScenario ==
    stage = "done" /\ ScenarioText =>
        /\ levha.AdiSoyadi = Str("Ali ^Ornek")
        /\ levha.VergiKimlikNo = Str("1234567890")
        /\ levha.VergiDairesi = Str("^Ornek VD")
        /\ levha.TicaretUnvani = <<>>

(***************************************************************************)
(* The digit classifier (ocr.go)                                           *)
(*                                                                         *)
(* A float64 is a fraction [n, d] in lowest terms with d > 0; NaN is 0/0   *)
(* and +Inf is 1/0.  The fractions of the model are exact where float64    *)
(* rounds: two different values of the model differ by far more than the   *)
(* rounding, so a comparison goes the way it goes in the program, except   *)
(* between scores that are equal as fractions.                             *)
(***************************************************************************)
RECURSIVE GCD(_, _)
GCD(a, b) == IF b = 0 THEN a ELSE GCD(b, a % b)

LCM(a, b) == (a \div GCD(a, b)) * b

NaN == [n |-> 0, d |-> 0]

PosInf == [n |-> 1, d |-> 0]

IsNaN(a) == a.n = 0 /\ a.d = 0

Frac(n, g, d) == [n |-> n \div g, d |-> d \div g]

\* float64(n) / float64(d) for integers n >= 0 and d >= 0
FDiv(n, d) ==
    IF d = 0 THEN (IF n = 0 THEN NaN ELSE PosInf) ELSE Frac(n, GCD(n, d), d)

FZero == FDiv(0, 1)

FOne == FDiv(1, 1)

\* a > 1
AboveOne(a) == a.n > a.d

\* if a > 1 { a = 1 }
CapOne(a) == IF AboveOne(a) THEN FOne ELSE a

\* The image: its width, its height and the gray value Y of each pixel
GrayAt(img, x, y) == img.px[<<x, y>>]

Pixels(img) == (0..(img.w - 1)) \X (0..(img.h - 1))

\* the sum of f over S, each value of f counted as often as it is taken
RECURSIVE SumValues(_, _, _)
SumValues(vals, S, f) ==
    IF vals = {} THEN 0
    ELSE LET v == CHOOSE u \in vals : \A t \in vals : u <= t
         IN  v * Cardinality({p \in S : f[p] = v}) + SumValues(vals \ {v}, S, f)

SumOver(S, f) == SumValues({f[p] : p \in S}, S, f)

\* the sum of 255 - Y over the pixels of S: 255 times the mass of S
Mass(img, S) == SumOver(S, [p \in S |-> 255 - img.px[p]])

AbsDiff(a, b) == IF a < b THEN b - a ELSE a - b

\* 1.0 - totalDiff/float64(count), totalDiff the sum of |a - b| / 255.0
Symmetry(diff, count) ==
    IF count = 0 THEN FZero ELSE FDiv(255 * count - diff, 255 * count)

calculateHorizontalSymmetry(img) ==
    LET S == (0..((img.w \div 2) - 1)) \X (0..(img.h - 1))
    IN  Symmetry(SumOver(S, [p \in S |->
                     AbsDiff(img.px[p], img.px[<<img.w - 1 - p[1], p[2]>>])]),
                 Cardinality(S))

calculateVerticalSymmetry(img) ==
    LET S == (0..(img.w - 1)) \X (0..((img.h \div 2) - 1))
    IN  Symmetry(SumOver(S, [p \in S |->
                     AbsDiff(img.px[p], img.px[<<p[1], img.h - 1 - p[2]>>])]),
                 Cardinality(S))

\* floodFill and fillHole: the pixels of bg reached from the pixels of
\* frontier through the four neighbours
Neighbours(p) ==
    {<<p[1] + 1, p[2]>>, <<p[1] - 1, p[2]>>, <<p[1], p[2] + 1>>, <<p[1], p[2] - 1>>}

RECURSIVE Fill(_, _, _)
Fill(bg, visited, frontier) ==
    IF frontier = {} THEN visited
    ELSE Fill(bg, visited \cup frontier,
              (UNION {Neighbours(p) : p \in frontier} \cap bg) \ (visited \cup frontier))

\* the first pixel of S in the order of the scan: row by row, left to right
FirstPixel(S) ==
    CHOOSE p \in S : \A q \in S : p[2] < q[2] \/ (p[2] = q[2] /\ p[1] <= q[1])

RECURSIVE holeLoop(_, _)
holeLoop(bg, visited) ==
    IF bg \subseteq visited THEN 0
    ELSE 1 + holeLoop(bg, Fill(bg, visited, {FirstPixel(bg \ visited)}))

Edge(img) ==
    {p \in Pixels(img) :
        p[1] = 0 \/ p[1] = img.w - 1 \/ p[2] = 0 \/ p[2] = img.h - 1}

countHolesIn(bg, edge) == holeLoop(bg, Fill(bg, {}, edge \cap bg))

countHoles(img) == countHolesIn({p \in Pixels(img) : img.px[p] > 128}, Edge(img))

\* calculateCrossings: "for y := height/4; y < 3*height/4; y += height/8".
\* With a step of 0 and the condition true at the start, y never changes and
\* the loop never ends.
crossingsLoops(h) == h \div 8 = 0 /\ h \div 4 < (3 * h) \div 4

sampleRows(h) ==
    IF h \div 8 = 0 THEN {}
    ELSE {y \in (h \div 4)..(((3 * h) \div 4) - 1) : (y - (h \div 4)) % (h \div 8) = 0}

isForeground(img, x, y) == x >= 0 /\ img.px[<<x, y>>] < 128

\* the changes between foreground and background along row y, starting
\* outside the foreground
rowCrossings(img, y) ==
    Cardinality({x \in 0..(img.w - 1) :
                    isForeground(img, x, y) # isForeground(img, x - 1, y)})

crossingsOf(img, rows) ==
    IF rows = {} THEN FZero
    ELSE CapOne(FDiv(SumOver(rows, [y \in rows |-> rowCrossings(img, y)]),
                     10 * Cardinality(rows)))

calculateCrossings(img) == crossingsOf(img, sampleRows(img.h))

\* the parts of the image whose mass extractFeatures takes
TopHalf(img) == {p \in Pixels(img) : p[2] < img.h \div 2}

LeftHalf(img) == {p \in Pixels(img) : p[1] < img.w \div 2}

Center(img) ==
    {p \in Pixels(img) :
        /\ p[1] >= img.w \div 4 /\ p[1] < (3 * img.w) \div 4
        /\ p[2] >= img.h \div 4 /\ p[2] < (3 * img.h) \div 4}

centerArea(img) ==
    (((3 * img.w) \div 4) - (img.w \div 4)) * (((3 * img.h) \div 4) - (img.h \div 4))

\* part / totalMass, left at 0 when totalMass is not above 0
massRatio(part, totalMass) == IF totalMass > 0 THEN FDiv(part, totalMass) ELSE FZero

\* centerMass / (totalMass * centerArea / float64(width*height)), at most 1
centerDensity(centerMass, totalMass, area, size) ==
    IF totalMass > 0 THEN CapOne(FDiv(centerMass * size, totalMass * area)) ELSE FZero

\* float64(width) / float64(height), inverted when above 1
foldAspect(a) == IF AboveOne(a) THEN FDiv(a.d, a.n) ELSE a

massFeatures(img, all, totalMass) ==
    <<massRatio(Mass(img, TopHalf(img)), totalMass),
      massRatio(Mass(img, all \ TopHalf(img)), totalMass),
      massRatio(Mass(img, LeftHalf(img)), totalMass),
      massRatio(Mass(img, all \ LeftHalf(img)), totalMass),
      centerDensity(Mass(img, Center(img)), totalMass, centerArea(img), img.w * img.h)>>

\* extractFeatures: the features in the order in which matchScore adds them
\* (the two symmetries, top, bottom, left, right, center, aspect ratio,
\* holes, crossings)
extractFeatures(img) ==
    <<calculateHorizontalSymmetry(img), calculateVerticalSymmetry(img)>>
    \o massFeatures(img, Pixels(img), Mass(img, Pixels(img)))
    \o <<foldAspect(FDiv(img.w, img.h)),
         CapOne(FDiv(countHoles(img), 2)),
         calculateCrossings(img)>>

\* NewDigitClassifier: the weights of the digits 0..9 in hundredths, in the
\* order in which matchScore adds them
weights ==
    << <<80, 70, 50, 50, 50, 50, 30, 70, 100, 40>>,
       <<60, 50, 50, 50, 30, 60, 70, 30, 0, 20>>,
       <<40, 30, 60, 50, 40, 50, 40, 60, 0, 50>>,
       <<30, 50, 50, 50, 30, 70, 40, 60, 0, 60>>,
       <<40, 40, 60, 40, 40, 60, 50, 60, 0, 50>>,
       <<40, 40, 55, 45, 50, 50, 45, 60, 0, 50>>,
       <<50, 40, 40, 60, 55, 45, 50, 60, 80, 50>>,
       <<40, 30, 70, 30, 40, 60, 35, 60, 0, 30>>,
       <<85, 70, 50, 50, 50, 50, 40, 65, 100, 60>>,
       <<50, 40, 60, 40, 45, 55, 50, 60, 80, 50>> >>

\* twice the factor of each term of matchScore: 0.5 for the aspect ratio,
\* 1.5 for the holes, 1 for the others
termFactors == <<2, 2, 2, 2, 2, 2, 2, 1, 3, 2>>

\* a common denominator of the features
RECURSIVE commonDenominator(_, _)
commonDenominator(f, i) ==
    IF i > Len(f) THEN 1 ELSE LCM(f[i].d, commonDenominator(f, i + 1))

\* factor * (1.0 - math.Abs(f - w)) in units of 1/(200 L), f a multiple of 1/L
scoreTerm(f, w, factor, L) ==
    factor * (100 * L - AbsDiff(100 * f.n * (L \div f.d), w * L))

RECURSIVE scoreSum(_, _, _, _)
scoreSum(f, w, L, i) ==
    IF i > Len(f) THEN 0
    ELSE scoreTerm(f[i], w[i], termFactors[i], L) + scoreSum(f, w, L, i + 1)

\* matchScore: the sum of the terms divided by 10; NaN when a feature is NaN
scoreOver(f, w, L) == [n |-> scoreSum(f, w, L, 1), d |-> 2000 * L]

matchScore(f, w) ==
    IF \E i \in 1..Len(f) : IsNaN(f[i]) THEN NaN
    ELSE scoreOver(f, w, commonDenominator(f, 1))

\* score > bestScore; bestScore is -1.0 or an earlier score of the same image
Greater(a, b) ==
    /\ ~IsNaN(a)
    /\ IF a.d = b.d THEN a.n > b.n ELSE a.n * b.d > b.n * a.d

betterOf(digit, score, bst) ==
    IF Greater(score, bst.score) THEN [digit |-> digit, score |-> score] ELSE bst

\* the loop of Classify over the digits
RECURSIVE bestLoop(_, _, _)
bestLoop(f, digit, bst) ==
    IF digit = 10 THEN bst
    ELSE bestLoop(f, digit + 1, betterOf(digit, matchScore(f, weights[digit + 1]), bst))

bestMatch(f) == bestLoop(f, 0, [digit |-> 0, score |-> [n |-> -1, d |-> 1]])

\* "Normalize confidence to 0-1 range"
normalize(c) == IF AboveOne(c) THEN FOne ELSE IF c.n < 0 THEN FZero ELSE c

(***************************************************************************)
(* Classify on one glyph image.  The images are every image of at most     *)
(* MaxPixels pixels with the two gray values of a binarized image (the     *)
(* images without pixels included), the all-white and all-black images of  *)
(* side MaxSide, the size of the smallest glyph extractDigitImage builds,  *)
(* and three drawn glyphs.                                                 *)
(***************************************************************************)
MaxPixels == 8

MaxSide == 16

GrayLevels == {0, 255}

ImagesOf(w, h) ==
    {[w |-> w, h |-> h, px |-> f] : f \in [(0..(w - 1)) \X (0..(h - 1)) -> GrayLevels]}

SmallImages ==
    UNION {ImagesOf(s[1], s[2]) :
              s \in {t \in (0..MaxPixels) \X (0..MaxPixels) : t[1] * t[2] <= MaxPixels}}

Uniform(w, h, Y) ==
    [w |-> w, h |-> h, px |-> [p \in (0..(w - 1)) \X (0..(h - 1)) |-> Y]]

UniformImages ==
    {Uniform(s[1], s[2], Y) :
        s \in {<<1, MaxSide>>, <<MaxSide, 1>>, <<MaxSide, MaxSide>>}, Y \in GrayLevels}

\* an image drawn row by row, 1 a black pixel and 0 a white one
Draw(rows) ==
    [w |-> Len(rows[1]), h |-> Len(rows),
     px |-> [p \in (0..(Len(rows[1]) - 1)) \X (0..(Len(rows) - 1)) |->
                IF rows[p[2] + 1][p[1] + 1] = 1 THEN 0 ELSE 255]]

gRing ==
    Draw(<< <<0, 0, 0, 0, 0, 0, 0>>, <<0, 0, 1, 1, 1, 0, 0>>, <<0, 1, 0, 0, 0, 1, 0>>,
            <<0, 1, 0, 0, 0, 1, 0>>, <<0, 1, 0, 0, 0, 1, 0>>, <<0, 1, 0, 0, 0, 1, 0>>,
            <<0, 1, 0, 0, 0, 1, 0>>, <<0, 1, 0, 0, 0, 1, 0>>, <<0, 0, 1, 1, 1, 0, 0>>,
            <<0, 0, 0, 0, 0, 0, 0>> >>)

gEight ==
    Draw(<< <<0, 0, 0, 0, 0, 0, 0>>, <<0, 0, 1, 1, 1, 0, 0>>, <<0, 1, 0, 0, 0, 1, 0>>,
            <<0, 1, 0, 0, 0, 1, 0>>, <<0, 0, 1, 1, 1, 0, 0>>, <<0, 1, 0, 0, 0, 1, 0>>,
            <<0, 1, 0, 0, 0, 1, 0>>, <<0, 1, 0, 0, 0, 1, 0>>, <<0, 0, 1, 1, 1, 0, 0>>,
            <<0, 0, 0, 0, 0, 0, 0>> >>)

gBar ==
    Draw(<< <<0, 0, 0, 0, 0>>, <<0, 0, 1, 0, 0>>, <<0, 1, 1, 0, 0>>, <<0, 0, 1, 0, 0>>,
            <<0, 0, 1, 0, 0>>, <<0, 0, 1, 0, 0>>, <<0, 0, 1, 0, 0>>, <<0, 0, 1, 0, 0>>,
            <<0, 0, 1, 0, 0>>, <<0, 0, 0, 0, 0>> >>)

GlyphImages == SmallImages \cup UniformImages \cup {gRing, gEight, gBar}

ClsInit ==
    /\ glyph \in GlyphImages /\ feats = <<>> /\ best = <<>> /\ phase = "start"
    /\ VknIdle /\ RecIdle /\ ParseIdle /\ FnIdle /\ ConcIdle

\* features := extractFeatures(img); in calculateCrossings the function may
\* stay for ever
ExtractFeatures ==
    /\ phase = "start"
    /\ IF crossingsLoops(glyph.h)
       THEN phase' = "spinning" /\ feats' = feats
       ELSE phase' = "scoring" /\ feats' = <<extractFeatures(glyph)>>
    /\ UNCHANGED <<glyph, best, vknVars, recVars, parseVars, fnVars, concVars>>

\* the loop over the ten digits
BestMatch ==
    /\ phase = "scoring"
    /\ best' = <<bestMatch(feats[1])>>
    /\ phase' = "normalize"
    /\ UNCHANGED <<glyph, feats, vknVars, recVars, parseVars, fnVars, concVars>>

\* the confidence brought into 0..1 and the return
Normalize ==
    /\ phase = "normalize"
    /\ best' = <<[digit |-> best[1].digit, confidence |-> normalize(best[1].score)]>>
    /\ phase' = "returned"
    /\ UNCHANGED <<glyph, feats, vknVars, recVars, parseVars, fnVars, concVars>>

ClsNext == ExtractFeatures \/ BestMatch \/ Normalize

SpecClassify == ClsInit /\ [][ClsNext]_vars

\* what Classify returns is a digit and a confidence between 0 and 1
ReturnedInRange ==
    phase = "returned" =>
        /\ best[1].digit \in 0..9
        /\ best[1].confidence.d > 0
        /\ 0 <= best[1].confidence.n
        /\ best[1].confidence.n <= best[1].confidence.d

(***************************************************************************)
(* C9: for every glyph image, the all-white, the all-black and the         *)
(* one-pixel-wide ones included, Classify returns, and what it returns is  *)
(* a digit in 0..9 and a confidence c with 0 <= c <= 1.                    *)
(***************************************************************************)
C9_ClassifyInRange == phase # "spinning" /\ ReturnedInRange

(***************************************************************************)
(* C11: when the tax types include "Kurumlar Vergisi" and, before the      *)
(* taxpayer kind is resolved, AdiSoyadi is set and TicaretUnvani is empty, *)
(* the resolution moves the name to TicaretUnvani and empties AdiSoyadi;   *)
(* and a finished record with "Kurumlar Vergisi" and a TicaretUnvani has   *)
(* an empty AdiSoyadi.                                                     *)
(***************************************************************************)
HasKurumlar(vl) == InSeq(Str("Kurumlar Vergisi"), vl.VergiTuru)

NameToMove(vl) == HasKurumlar(vl) /\ vl.AdiSoyadi # <<>> /\ vl.TicaretUnvani = <<>>

C11_CorporateNameMoved ==
    /\ [][stage = "resolve" /\ NameToMove(levha) =>
            levha'.TicaretUnvani = levha.AdiSoyadi /\ levha'.AdiSoyadi = <<>>]_vars
    /\ [](stage = "done" /\ HasKurumlar(levha) /\ levha.TicaretUnvani # <<>> =>
            levha.AdiSoyadi = <<>>)

\* the record as it is before the taxpayer kind is resolved
beforeResolve(lines, t) ==
    extractLists(
        reconcileNames(
            fallbackFields(
                labeledFields(
                    parseGIBFormat(parseLineBasedFormat(NewVergiLevhasi, lines), lines),
                    t),
                lines, t),
            lines),
        lines, t)

nameMoved(pre, post) ==
    NameToMove(pre) /\ post.TicaretUnvani = pre.AdiSoyadi /\ post.AdiSoyadi = <<>>

C11_Witness == stage = "done" /\ nameMoved(beforeResolve(content, Flat(content)), levha)

(***************************************************************************)
(* Specification SpecBarcodeText: an image shows one barcode symbol, which *)
(* one reader decodes at rotation 0; scanCode128Barcode (the scan of the    *)
(* first embedded image) or scanBarcode (the scan of every other image) is *)
(* called on it.  The decoded texts are made of at most MaxBlocks blocks:  *)
(* two valid identifiers, a date-like one, one that starts with 0, a       *)
(* separator and a single digit.                                           *)
(***************************************************************************)
MaxBlocks == 3

TextBlocks == {tVknA, tVknB, tDate, tZero, <<"-">>, <<"7">>}

RECURSIVE Concat(_)
Concat(parts) == IF parts = <<>> THEN <<>> ELSE Head(parts) \o Concat(Tail(parts))

BarcodeTexts == {Concat(b) : b \in UNION {[1..k -> TextBlocks] : k \in 1..MaxBlocks}}

OneSymbol(reader, text) == Raster(600, 300, {Sym(0, reader, "raw", text)}, {}, NoneStr)

BarcodeInit ==
    /\ call \in {"scanCode128Barcode", "scanBarcode"}
    /\ arg \in {[reader |-> r, text |-> t] :
                   r \in {readers[k] : k \in 1..Len(readers)}, t \in BarcodeTexts}
    /\ call = "scanCode128Barcode" => arg.reader = "Code128"
    /\ ret = <<>>
    /\ VknIdle /\ RecIdle /\ ParseIdle /\ ClsIdle /\ ConcIdle

ScanCode128 ==
    /\ call = "scanCode128Barcode" /\ ret = <<>>
    /\ ret' = <<scanCode128Barcode(OneSymbol(arg.reader, arg.text))>>
    /\ UNCHANGED <<call, arg, vknVars, recVars, parseVars, clsVars, concVars>>

ScanAllReaders ==
    /\ call = "scanBarcode" /\ ret = <<>>
    /\ ret' = <<scanBarcode(OneSymbol(arg.reader, arg.text))>>
    /\ UNCHANGED <<call, arg, vknVars, recVars, parseVars, clsVars, concVars>>

BarcodeNext == ScanCode128 \/ ScanAllReaders

SpecBarcodeText == BarcodeInit /\ [][BarcodeNext]_vars

(***************************************************************************)
(* C12: a decoded text that is exactly a 10-digit string passing           *)
(* isValidVKN is the identifier, unchanged; for a longer decoded text the  *)
(* identifier is the first 10-digit run with a non-zero first digit that   *)
(* passes isValidVKN.                                                      *)
(***************************************************************************)
\* the 10-digit runs with a non-zero first digit, from left to right
FirstValidOf(runs) ==
    LET valid == {i \in 1..Len(runs) : isValidVKN(runs[i])}
    IN  IF valid = {} THEN NoneStr
        ELSE runs[CHOOSE i \in valid : \A j \in valid : i <= j]

FirstValidRun(t) == FirstValidOf(FindAllVknRuns(t, 1))

\* the first part of C12 alone
ExactTextUnchanged ==
    ret # <<>> /\ Len(arg.text) = 10 /\ isValidVKN(arg.text) => ret[1] = arg.text

C12_IdentifierOfDecodedText ==
    /\ ExactTextUnchanged
    /\ ret # <<>> /\ Len(arg.text) > 10 => ret[1] = FirstValidRun(arg.text)

\* the second part of C12 for the texts that have a run passing isValidVKN
ValidRunReturned ==
    ret # <<>> /\ Len(arg.text) > 10 /\ FirstValidRun(arg.text) # NoneStr =>
        ret[1] = FirstValidRun(arg.text)

(***************************************************************************)
(* Parse (part_003).  What Parse is given is known through what the calls  *)
(* it makes return: whether io.ReadAll and api.ReadValidateAndOptimize     *)
(* succeed, for every page the text extractTextFromPDFContent gives or the *)
(* failure of ExtractPageContent, and the result of                        *)
(* ExtractVKNFromPDFWithImage.  A result of Parse is the record, <<>> for  *)
(* nil, and the error, "nil" for none.                                     *)
(***************************************************************************)
FailedPage == [ok |-> FALSE, lines |-> <<>>]

PageOf(lines) == [ok |-> TRUE, lines |-> lines]

\* rawText: the text of every page that could be read, each followed by "\n",
\* as the lines strings.Split will give; the last line is empty
RECURSIVE rawTextLines(_)
rawTextLines(pages) ==
    IF pages = <<>> THEN <<lBlank>>
    ELSE (IF Head(pages).ok THEN Head(pages).lines ELSE <<>>) \o rawTextLines(Tail(pages))

\* combinedText: "\nVKN: " + vkn + "\n" is added when the recovery succeeded
combinedTextLines(pages, ocr) ==
    rawTextLines(pages)
    \o (IF ~ocr.err /\ ocr.vkn # NoneStr THEN <<lRecovered(ocr.vkn), lBlank>> ELSE <<>>)

\* mutant: a failed recovery is the error of Parse
Parse_RecoveryFatal(in) ==
    IF ~in.readOk THEN [record |-> <<>>, err |-> "failed to read PDF data"]
    ELSE IF ~in.validOk THEN [record |-> <<>>, err |-> "failed to read and validate PDF"]
    ELSE IF in.ocr.err THEN [record |-> <<>>, err |-> "OCR extraction failed"]
    ELSE [record |-> <<parseContent(Lines(combinedTextLines(in.pages, in.ocr)))>>,
          err |-> "nil"]

Parse(in) ==
    IF ~in.readOk THEN [record |-> <<>>, err |-> "failed to read PDF data"]
    ELSE IF ~in.validOk THEN [record |-> <<>>, err |-> "failed to read and validate PDF"]
    ELSE [record |-> <<parseContent(Lines(combinedTextLines(in.pages, in.ocr)))>>,
          err |-> "nil"]

(***************************************************************************)
(* Specification SpecEntry: Parse on a document of at most MaxPages pages  *)
(***************************************************************************)
MaxPages == 2

PageTexts ==
    { <<lBlank>>,
      <<lAdi, lVkn, lDaire>>,
      <<lBanner, lMarker, lCompany, lAddress, lKurumlar, lOffice, lDate>>,
      <<lAct, lTaxBase>> }

PageResults == {FailedPage} \cup {PageOf(t) : t \in PageTexts}

RecoveryResults ==
    { [vkn |-> tVknA, err |-> FALSE], [vkn |-> tDate, err |-> FALSE],
      [vkn |-> NoneStr, err |-> TRUE] }

ParseInputs ==
    { [readOk |-> r, validOk |-> v, pages |-> p, ocr |-> o] :
        r \in BOOLEAN, v \in BOOLEAN,
        p \in UNION {[1..k -> PageResults] : k \in 0..MaxPages},
        o \in RecoveryResults }

EntryInit ==
    /\ call = "Parse" /\ arg \in ParseInputs /\ ret = <<>>
    /\ VknIdle /\ RecIdle /\ ParseIdle /\ ClsIdle /\ ConcIdle

\* the early returns of Parse
ParseRejects ==
    /\ call = "Parse" /\ ret = <<>>
    /\ ~arg.readOk \/ ~arg.validOk
    /\ ret' = <<Parse(arg)>>
    /\ UNCHANGED <<call, arg, vknVars, recVars, parseVars, clsVars, concVars>>

\* the text is extracted, the recovery is tried, the text is parsed
ParseReturns ==
    /\ call = "Parse" /\ ret = <<>>
    /\ arg.readOk /\ arg.validOk
    /\ ret' = <<Parse(arg)>>
    /\ UNCHANGED <<call, arg, vknVars, recVars, parseVars, clsVars, concVars>>

EntryNext == ParseRejects \/ ParseReturns

SpecEntry == EntryInit /\ [][EntryNext]_vars

(***************************************************************************)
(* C13: when the PDF can be read and validated, Parse returns a record and *)
(* no error, also when no field is found and the recovery fails.           *)
(***************************************************************************)
C13_ParseReturnsRecord ==
    ret # <<>> /\ arg.readOk /\ arg.validOk =>
        ret[1].err = "nil" /\ ret[1].record # <<>>

\* nothing is found: every field of the record is empty
C13_Witness ==
    /\ ret # <<>> /\ arg.readOk /\ arg.validOk /\ arg.ocr.err
    /\ ret[1].err = "nil"
    /\ ret[1].record = <<NewVergiLevhasi>>

(***************************************************************************)
(* C17: the identifier parseContent takes from a 10-digit run without a    *)
(* label passes the validation of isValidVKN: its first digit is not 0     *)
(* and it is not date-like.                                                *)
(***************************************************************************)
C17_RawIdentifierIsValid ==
    [][stage = "fallback" /\ levha.VergiKimlikNo = <<>> /\ levha'.VergiKimlikNo # <<>>
          => isValidVKN(levha'.VergiKimlikNo)]_vars

\* what the fallback stores is a run of 10 digits of the text
RawIdentifierIsTenDigits ==
    [][stage = "fallback" /\ levha.VergiKimlikNo = <<>> /\ levha'.VergiKimlikNo # <<>>
          => /\ Len(levha'.VergiKimlikNo) = 10
             /\ AllDigits(levha'.VergiKimlikNo, 1, 10)
             /\ Contains(Flat(content), levha'.VergiKimlikNo)]_vars

(***************************************************************************)
(* Specification SpecField: extractField on a text of at most MaxFieldLines *)
(* lines and one of the pattern lists of parseContent                      *)
(***************************************************************************)
MaxFieldLines == 2

lAdiDotted == Str("Adi Soyadi: Veli Deneme  ")
lAdiBlank == Str("Ad^i Soyad^i: ")
lTcknLabeled == Str("TC Kimlik No 12345678901")

FieldLines == { lAdi, lAdiDotted, lAdiBlank, lUnvan, lDaire, lVkn, lTcknLabeled, lOffice }

FieldTexts ==
    { Join(l, <<"\n">>) : l \in UNION {[1..k -> FieldLines] : k \in 0..MaxFieldLines} }

PatternLists ==
    { adiSoyadiPatterns, ticaretUnvaniPatterns, isYeriAdresiPatterns,
      vergiDairesiPatterns, vergiKimlikNoPatterns, tcKimlikNoPatterns,
      iseBaslamaPatterns }

FieldInit ==
    /\ call = "extractField"
    /\ arg \in {[text |-> t, patterns |-> ps] : t \in FieldTexts, ps \in PatternLists}
    /\ ret = <<>>
    /\ VknIdle /\ RecIdle /\ ParseIdle /\ ClsIdle /\ ConcIdle

ExtractField ==
    /\ call = "extractField" /\ ret = <<>>
    /\ ret' = <<extractField(arg.text, arg.patterns)>>
    /\ UNCHANGED <<call, arg, vknVars, recVars, parseVars, clsVars, concVars>>

FieldNext == ExtractField

SpecField == FieldInit /\ [][FieldNext]_vars

\* the group each pattern of the list captures in the text
Captures(t, patterns) == [k \in 1..Len(patterns) |-> FindFrom(t, 1, patterns[k])]

\* the patterns whose group is not empty
Producing(caps) == {k \in 1..Len(caps) : caps[k].ok /\ caps[k].val # <<>>}

FirstProducing(caps) == CHOOSE k \in Producing(caps) : \A j \in Producing(caps) : k <= j

FirstCapture(caps) ==
    IF Producing(caps) = {} THEN <<>> ELSE TrimSpace(caps[FirstProducing(caps)].val)

(***************************************************************************)
(* C18: extractField returns the trimmed capture of the first pattern, in  *)
(* list order, that captures something, and "" when no pattern does.       *)
(***************************************************************************)
C18_FirstPatternWins ==
    ret # <<>> => ret[1] = FirstCapture(Captures(arg.text, arg.patterns))

\* the first pattern captures nothing, a later one does, and white space is trimmed
C18_Witness ==
    /\ ret # <<>> /\ ret[1] # <<>>
    /\ Producing(Captures(arg.text, arg.patterns)) # {}
    /\ FirstProducing(Captures(arg.text, arg.patterns)) > 1
    /\ ret[1] # Captures(arg.text, arg.patterns)[FirstProducing(Captures(arg.text, arg.patterns))].val

\* a capture of white space alone is returned as ""
BlankCaptureReturned ==
    /\ ret = <<NoneStr>>
    /\ Producing(Captures(arg.text, arg.patterns)) # {}

(***************************************************************************)
(* Specification SpecTaxTypes: extractTaxTypes on a text of at most        *)
(* MaxPhrases phrases                                                      *)
(***************************************************************************)
MaxPhrases == 3

Phrases ==
    { Str("YILLIK GEL^IR VERG^IS^I"), Str("Y^ill^ik Gelir Vergisi"),
      Str("Gelir Vergisi"), Str("KDV"), Str("Kurumlar Vergisi"),
      Str("KATMA DE^GER VERG^IS^I"), Str("katma deger vergisi"),
      Str("Random text without tax types") }

PhraseTexts ==
    { Join(l, Str(" ve ")) : l \in UNION {[1..k -> Phrases] : k \in 0..MaxPhrases} }

TaxTypesInit ==
    /\ call = "extractTaxTypes" /\ arg \in PhraseTexts /\ ret = <<>>
    /\ VknIdle /\ RecIdle /\ ParseIdle /\ ClsIdle /\ ConcIdle

ExtractTaxTypes ==
    /\ call = "extractTaxTypes" /\ ret = <<>>
    /\ ret' = <<extractTaxTypes(<<[line |-> arg, taxTypes |-> taxTypeHits(arg)]>>)>>
    /\ UNCHANGED <<call, arg, vknVars, recVars, parseVars, clsVars, concVars>>

TaxTypesNext == ExtractTaxTypes

SpecTaxTypes == TaxTypesInit /\ [][TaxTypesNext]_vars

\* the place of a canonical tax type in the check list
TaxTypeRank(name) ==
    CHOOSE k \in 1..Len(taxTypeChecks) :
        /\ taxTypeChecks[k][2] = name
        /\ \A j \in 1..(k - 1) : taxTypeChecks[j][2] # name

\* the canonical types one of whose phrases the lower-cased text contains
TypesOccurring(text) ==
    { taxTypeChecks[k][2] : k \in {j \in 1..Len(taxTypeChecks) :
                                      Contains(ToLower(text), taxTypeChecks[j][1])} }

TypesExpected(occurring) ==
    IF Str("Y^ill^ik Gelir Vergisi") \in occurring
    THEN occurring \ {Str("Gelir Vergisi")} ELSE occurring

TaxTypesAsClaimed(types, occurring) ==
    /\ \A i, j \in 1..Len(types) : types[i] = types[j] => i = j
    /\ {types[i] : i \in 1..Len(types)} = TypesExpected(occurring)
    /\ ~(InSeq(Str("Gelir Vergisi"), types) /\ InSeq(Str("Y^ill^ik Gelir Vergisi"), types))
    /\ \A i, j \in 1..Len(types) : i < j => TaxTypeRank(types[i]) < TaxTypeRank(types[j])

(***************************************************************************)
(* C19: extractTaxTypes returns a list without duplicates that holds a     *)
(* canonical tax type exactly when one of its phrases occurs in the        *)
(* lower-cased text, "Gelir Vergisi" being left out when "Yillik Gelir     *)
(* Vergisi" is present; the list follows the order of the check list.      *)
(***************************************************************************)
C19_TaxTypesOfText ==
    ret # <<>> => TaxTypesAsClaimed(ret[1], TypesOccurring(arg))

\* both spellings of the annual tax, the plain one, and KDV ahead of
\* Kurumlar Vergisi in the text
C19_Witness ==
    /\ ret = << <<Str("Y^ill^ik Gelir Vergisi"), Str("Kurumlar Vergisi"), Str("KDV")>> >>
    /\ IndexOf(arg, Str("KDV")) < IndexOf(arg, Str("Kurumlar Vergisi"))
    /\ IndexOf(arg, Str("KDV")) < IndexOf(arg, Str("YILLIK GEL^IR VERG^IS^I"))
    /\ IndexOf(arg, Str("KDV")) > 0

(***************************************************************************)
(* extractPDFStrings and extractPDFString (part_003)                       *)
(*                                                                         *)
(* A content stream is the sequence of its bytes; indices are Go's, from 0. *)
(***************************************************************************)
ByteAt(s, i) == s[i + 1]

\* the loop of extractPDFString from index i on, at nesting depth depth with
\* result written so far: the payload and the index after the closing paren
RECURSIVE pdfStringLoop(_, _, _, _)
pdfStringLoop(s, i, depth, result) ==
    IF i >= Len(s) THEN [str |-> result, endIdx |-> i]
    ELSE LET ch == ByteAt(s, i)
         IN  IF ch = "\\" /\ i + 1 < Len(s)
             THEN pdfStringLoop(s, i + 2, depth, result \o <<ch, ByteAt(s, i + 1)>>)
             ELSE IF ch = "("
             THEN pdfStringLoop(s, i + 1, depth + 1,
                                IF depth + 1 > 1 THEN Append(result, ch) ELSE result)
             ELSE IF ch = ")"
             THEN IF depth - 1 = 0 THEN [str |-> result, endIdx |-> i + 1]
                  ELSE pdfStringLoop(s, i + 1, depth - 1, Append(result, ch))
             ELSE pdfStringLoop(s, i + 1, depth,
                                IF depth > 0 THEN Append(result, ch) ELSE result)

extractPDFString(s, start) ==
    IF start >= Len(s) \/ ByteAt(s, start) # "(" THEN [str |-> <<>>, endIdx |-> start]
    ELSE pdfStringLoop(s, start, 0, <<>>)

\* the loop of extractPDFStrings from index i on
RECURSIVE extractPDFStrings(_, _, _)
extractPDFStrings(s, i, results) ==
    IF i >= Len(s) THEN results
    ELSE IF ByteAt(s, i) = "(" /\ extractPDFString(s, i).endIdx > i
    THEN extractPDFStrings(s, extractPDFString(s, i).endIdx,
                           Append(results, extractPDFString(s, i).str))
    ELSE extractPDFStrings(s, i + 1, results)

(***************************************************************************)
(* Specification SpecTokens: extractPDFStrings on a content stream of at   *)
(* most MaxContent bytes                                                   *)
(***************************************************************************)
MaxContent == 6

ContentBytes == {"(", ")", "\\", "a"}

Contents == UNION {[1..n -> ContentBytes] : n \in 0..MaxContent}

TokensInit ==
    /\ call = "extractPDFStrings" /\ arg \in Contents /\ ret = <<>>
    /\ VknIdle /\ RecIdle /\ ParseIdle /\ ClsIdle /\ ConcIdle

ExtractPDFStrings ==
    /\ call = "extractPDFStrings" /\ ret = <<>>
    /\ ret' = <<extractPDFStrings(arg, 0, <<>>)>>
    /\ UNCHANGED <<call, arg, vknVars, recVars, parseVars, clsVars, concVars>>

TokensNext == ExtractPDFStrings

SpecTokens == TokensInit /\ [][TokensNext]_vars

(***************************************************************************)
(* The literal that opens at position p (from 1) of a content stream, by   *)
(* the rules of the literal: an escape is a backslash that is not itself   *)
(* escaped, and it takes the byte after it out of the count of the depth   *)
(***************************************************************************)
\* the number of backslashes that end just before position q, none of them
\* before position p + 1
RECURSIVE BackslashesBefore(_, _, _)
BackslashesBefore(s, p, q) ==
    IF q - 1 <= p \/ s[q - 1] # "\\" THEN 0 ELSE 1 + BackslashesBefore(s, p, q - 1)

Escaped(s, p, q) == BackslashesBefore(s, p, q) % 2 = 1

DepthAt(s, p, q) ==
    Cardinality({k \in p..q : s[k] = "(" /\ ~Escaped(s, p, k)})
    - Cardinality({k \in p..q : s[k] = ")" /\ ~Escaped(s, p, k)})

\* the unescaped ")" that brings the depth of the literal back to zero, 0 if none
Closing(s, p) ==
    LET at == {q \in (p + 1)..Len(s) :
                  s[q] = ")" /\ ~Escaped(s, p, q) /\ DepthAt(s, p, q) = 0}
    IN  IF at = {} THEN 0 ELSE CHOOSE q \in at : \A k \in at : q <= k

\* the first "(" from position i on, 0 if none
FirstOpen(s, i) ==
    LET at == {q \in i..Len(s) : s[q] = "("}
    IN  IF at = {} THEN 0 ELSE CHOOSE q \in at : \A k \in at : q <= k

\* the tokens are the literals found from position i on, one after the other:
\* each is what lies between its "(" and its closing ")", and the search for
\* the next one begins after that ")"
RECURSIVE TokensAsClaimed(_, _, _)
nextTokenAsClaimed(s, p, tokens) ==
    /\ p # 0 /\ Closing(s, p) # 0
    /\ Head(tokens) = SubSeq(s, p + 1, Closing(s, p) - 1)
    /\ TokensAsClaimed(s, Closing(s, p) + 1, Tail(tokens))

TokensAsClaimed(s, i, tokens) ==
    IF tokens = <<>> THEN FirstOpen(s, i) = 0 \/ Closing(s, FirstOpen(s, i)) = 0
    ELSE nextTokenAsClaimed(s, FirstOpen(s, i), tokens)

\* every literal of the stream from position i on is closed
RECURSIVE AllClosed(_, _)
closedFrom(s, p) == p = 0 \/ (Closing(s, p) # 0 /\ AllClosed(s, Closing(s, p) + 1))

AllClosed(s, i) == closedFrom(s, FirstOpen(s, i))

(***************************************************************************)
(* C20: a token of extractPDFStrings begins at a "(" and ends exactly at   *)
(* the unescaped ")" that brings the depth back to zero, a backslash       *)
(* taking the next byte out of the count; its payload is what lies         *)
(* between the two, nested parentheses included; the scan resumes after    *)
(* that ")", so tokens do not overlap and a nested literal is no token.    *)
(***************************************************************************)
C20_TokenEndsAtClosingParen ==
    ret # <<>> => TokensAsClaimed(arg, 1, ret[1])

\* the same for the streams all of whose literals are closed
TokensOfClosedLiterals ==
    ret # <<>> /\ AllClosed(arg, 1) => TokensAsClaimed(arg, 1, ret[1])

\* a literal with a nested pair and an escaped parenthesis: one token
NestedAndEscaped ==
    /\ arg = <<"(", "(", ")", "\\", ")", ")">>
    /\ ret = << << <<"(", ")", "\\", ")">> >> >>

\* the closed literals found one after the other from position i on, up to the
\* end of the stream or to a literal that is not closed
RECURSIVE ClosedLiterals(_, _)
closedLiteralAt(s, p) ==
    IF p = 0 \/ Closing(s, p) = 0 THEN <<>>
    ELSE <<SubSeq(s, p + 1, Closing(s, p) - 1)>> \o ClosedLiterals(s, Closing(s, p) + 1)

ClosedLiterals(s, i) == closedLiteralAt(s, FirstOpen(s, i))

(***************************************************************************)
(* C21: a literal that the end of the input leaves open is abandoned: it   *)
(* gives no token, and the tokens before it are returned unchanged.        *)
(***************************************************************************)
C21_UnterminatedAbandoned ==
    ret # <<>> => ret[1] = ClosedLiterals(arg, 1)

\* the tokens before the open literal are returned, followed by at most one
\* token more
ClosedLiteralsFirst ==
    ret # <<>> =>
        /\ IsPrefix(ClosedLiterals(arg, 1), ret[1])
        /\ Len(ret[1]) <= Len(ClosedLiterals(arg, 1)) + 1
        /\ (AllClosed(arg, 1) => ret[1] = ClosedLiterals(arg, 1))

(***************************************************************************)
(* The text decoder (part_003): decodePDFString and decodeHexString        *)
(*                                                                         *)
(* Here a Go string is the sequence of its bytes (0..255) and the value    *)
(* returned is given as the sequence of the code points its UTF-8 holds.   *)
(***************************************************************************)
Backslash == 92

\* result.WriteRune(r): the UTF-8 bytes of a code point below 2048
UTF8(r) == IF r < 128 THEN <<r>> ELSE <<192 + (r \div 64), 128 + (r % 64)>>

\* charmap.Windows1254: the code point of a byte; 65533 (U+FFFD) for the bytes
\* the code page leaves undefined
Windows1254High ==
    << 8364, 65533, 8218, 402, 8222, 8230, 8224, 8225, 710, 8240, 352, 8249, 338,
       65533, 65533, 65533, 65533, 8216, 8217, 8220, 8221, 8226, 8211, 8212, 732,
       8482, 353, 8250, 339, 65533, 65533, 376 >>

Windows1254(b) ==
    IF b < 128 THEN b
    ELSE IF b < 160 THEN Windows1254High[b - 127]
    ELSE IF b = 208 THEN 286 ELSE IF b = 221 THEN 304 ELSE IF b = 222 THEN 350
    ELSE IF b = 240 THEN 287 ELSE IF b = 253 THEN 305 ELSE IF b = 254 THEN 351
    ELSE b

containsHighBytes(bytes) == \E i \in 1..Len(bytes) : bytes[i] > 127

\* convertWindows1254ToUTF8: every byte is read as a character of the code page
convertWindows1254ToUTF8(bytes) == [i \in 1..Len(bytes) |-> Windows1254(bytes[i])]

IsOctal(b) == b >= 48 /\ b <= 55

\* the index after the octal digits of an escape: at most two more after s[i+1]
OctalEnd(s, i) ==
    LET j == i + 2
    IN  IF j < Len(s) /\ IsOctal(ByteAt(s, j))
        THEN IF j + 1 < Len(s) /\ IsOctal(ByteAt(s, j + 1)) THEN j + 2 ELSE j + 1
        ELSE j

\* strconv.ParseInt(octal, 8, 32) of the digits s[from..to-1]
RECURSIVE OctalValue(_, _, _)
OctalValue(s, from, to) ==
    IF from >= to THEN 0
    ELSE OctalValue(s, from, to - 1) * 8 + (ByteAt(s, to - 1) - 48)

\* the character of a one-letter escape, -1 for the others
NamedEscape(c) ==
    IF c = 110 THEN 10 ELSE IF c = 114 THEN 13 ELSE IF c = 116 THEN 9
    ELSE IF c = 98 THEN 8 ELSE IF c = 102 THEN 12
    ELSE IF c = 40 \/ c = 41 \/ c = 92 THEN c ELSE -1

\* the loop of decodePDFString from index i on; result: the bytes written
RECURSIVE decodeLoop(_, _, _)
decodeLoop(s, i, result) ==
    IF i >= Len(s) THEN result
    ELSE IF ByteAt(s, i) = Backslash /\ i + 1 < Len(s)
    THEN LET c == ByteAt(s, i + 1)
         IN  IF NamedEscape(c) # -1
             THEN decodeLoop(s, i + 2, result \o UTF8(NamedEscape(c)))
             ELSE IF IsOctal(c)
             THEN \* i = j - 1, then i += 2
                  decodeLoop(s, (OctalEnd(s, i) - 1) + 2,
                             result \o UTF8(OctalValue(s, i + 1, OctalEnd(s, i))))
             ELSE decodeLoop(s, i + 2, Append(result, c))
    ELSE decodeLoop(s, i + 1, Append(result, ByteAt(s, i)))

\* the bytes written, read through the code page when one of them is above 127
recode(bytes) ==
    IF containsHighBytes(bytes) THEN convertWindows1254ToUTF8(bytes) ELSE bytes

decodePDFString(s) == recode(decodeLoop(s, 0, <<>>))

(***************************************************************************)
(* Specification SpecLiteral: decodePDFString on a payload of at most      *)
(* MaxLiteral bytes                                                        *)
(***************************************************************************)
MaxLiteral == 5

\* backslash, the digits 1 and 3, the letters n and A, the byte 0xDD
LiteralBytes == {92, 49, 51, 110, 65, 221}

Literals == UNION {[1..n -> LiteralBytes] : n \in 0..MaxLiteral}

LiteralInit ==
    /\ call = "decodePDFString" /\ arg \in Literals /\ ret = <<>>
    /\ VknIdle /\ RecIdle /\ ParseIdle /\ ClsIdle /\ ConcIdle

DecodePDFString ==
    /\ call = "decodePDFString" /\ ret = <<>>
    /\ ret' = <<decodePDFString(arg)>>
    /\ UNCHANGED <<call, arg, vknVars, recVars, parseVars, clsVars, concVars>>

LiteralNext == DecodePDFString

SpecLiteral == LiteralInit /\ [][LiteralNext]_vars

\* the payload read item by item: an escape is a backslash with the byte after
\* it, or with up to three octal digits; every item is one character, a byte
\* or an octal value above 127 being the character of the code page
RECURSIVE CharPerItem(_, _)
CharPerItem(s, i) ==
    IF i >= Len(s) THEN <<>>
    ELSE IF ByteAt(s, i) = Backslash /\ i + 1 < Len(s)
    THEN LET c == ByteAt(s, i + 1)
         IN  IF NamedEscape(c) # -1 THEN <<NamedEscape(c)>> \o CharPerItem(s, i + 2)
             ELSE IF IsOctal(c)
             THEN LET v == OctalValue(s, i + 1, OctalEnd(s, i))
                  IN  <<IF v < 256 THEN Windows1254(v) ELSE v>>
                      \o CharPerItem(s, OctalEnd(s, i))
             ELSE <<Windows1254(c)>> \o CharPerItem(s, i + 2)
    ELSE <<Windows1254(ByteAt(s, i))>> \o CharPerItem(s, i + 1)

\* an item of the payload from index i on is an octal escape
RECURSIVE HasOctalEscape(_, _)
HasOctalEscape(s, i) ==
    IF i + 1 >= Len(s) THEN FALSE
    ELSE IF ByteAt(s, i) = Backslash
    THEN IsOctal(ByteAt(s, i + 1)) \/ HasOctalEscape(s, i + 2)
    ELSE HasOctalEscape(s, i + 1)

(***************************************************************************)
(* C23: decodePDFString turns every escape of a literal into exactly one   *)
(* character: the one-letter escapes into their character and an octal     *)
(* escape into one character, for a value in 128..255 the character the    *)
(* Turkish code page gives that byte.                                      *)
(***************************************************************************)
C23_OneCharacterPerEscape ==
    ret # <<>> => ret[1] = CharPerItem(arg, 0)

\* the same for the payloads without an octal escape
OneCharacterWithoutOctal ==
    ret # <<>> /\ ~HasOctalEscape(arg, 0) => ret[1] = CharPerItem(arg, 0)

(***************************************************************************)
(* decodeHexString: a payload is the sequence of its hex digits (0..15)    *)
(***************************************************************************)
\* if len(hex)%2 != 0 { hex += "0" }, then the bytes of the digit pairs
byteData(hex) ==
    LET padded == IF Len(hex) % 2 # 0 THEN Append(hex, 0) ELSE hex
    IN  [k \in 1..(Len(padded) \div 2) |-> padded[2 * k - 1] * 16 + padded[2 * k]]

hasBOM(data) == Len(data) >= 2 /\ data[1] = 254 /\ data[2] = 255

\* the zero bytes at the even offsets 0, 2, 4, ...
zeroCount(data) == Cardinality({i \in 0..(Len(data) - 1) : i % 2 = 0 /\ ByteAt(data, i) = 0})

isLikelyUTF16BE(data) ==
    IF Len(data) < 4 \/ Len(data) % 2 # 0 THEN FALSE
    ELSE zeroCount(data) > Len(data) \div 4

\* utf16.Decode of one code unit: a surrogate without its partner is U+FFFD
\* (the payloads of the model hold no high surrogate, so no pair is formed)
RuneOfUnit(u) == IF u >= 55296 /\ u <= 57343 THEN 65533 ELSE u

\* the elements of a sequence that pass the test, in their order
Filter(seq, Test(_)) ==
    LET idx == {i \in 1..Len(seq) : Test(seq[i])}
    IN  [k \in 1..Cardinality(idx) |->
            seq[CHOOSE i \in idx : Cardinality({j \in idx : j <= i}) = k]]

KeptRune(r) == r >= 32 \/ r = 10 \/ r = 13 \/ r = 9

KeptByte(b) == b >= 32

\* decodeUTF16BE, keep being the test a code point passes to be written
UTF16BEWith(data, keep(_)) ==
    LET padded == IF Len(data) % 2 # 0 THEN Append(data, 0) ELSE data
        runes == [k \in 1..(Len(padded) \div 2) |->
                     RuneOfUnit(padded[2 * k - 1] * 256 + padded[2 * k])]
    IN  Filter(runes, keep)

decodeUTF16BE(data) == UTF16BEWith(data, KeptRune)

\* decodeHexString on the bytes of the payload; likely: the test for UTF-16BE
\* without a byte-order mark, keep: the test of the single-byte path
HexBytesWith(data, likely(_), keep(_)) ==
    IF hasBOM(data) THEN decodeUTF16BE(SubSeq(data, 3, Len(data)))
    ELSE IF likely(data) THEN decodeUTF16BE(data)
    ELSE recode(Filter(data, keep))

GuardedLikely(data) == Len(data) >= 4 /\ isLikelyUTF16BE(data)

decodeHexString(hex) == HexBytesWith(byteData(hex), GuardedLikely, KeptByte)

(***************************************************************************)
(* Specification SpecHex: decodeHexString on a payload of at most          *)
(* MaxHexBytes bytes, with or without an odd digit at its end              *)
(***************************************************************************)
MaxHexBytes == 4

\* the bytes 00, 0A (newline), 41 (A), DD, FE and FF as digit pairs
HexPairs == {<<0, 0>>, <<0, 10>>, <<4, 1>>, <<13, 13>>, <<15, 14>>, <<15, 15>>}

HexPayloads ==
    { Concat(ps) \o odd : ps \in UNION {[1..n -> HexPairs] : n \in 0..MaxHexBytes},
                          odd \in {<<>>, <<4>>} }

HexInit ==
    /\ call = "decodeHexString" /\ arg \in HexPayloads /\ ret = <<>>
    /\ VknIdle /\ RecIdle /\ ParseIdle /\ ClsIdle /\ ConcIdle

DecodeHexString ==
    /\ call = "decodeHexString" /\ ret = <<>>
    /\ ret' = <<decodeHexString(arg)>>
    /\ UNCHANGED <<call, arg, vknVars, recVars, parseVars, clsVars, concVars>>

HexNext == DecodeHexString

SpecHex == HexInit /\ [][HexNext]_vars

OnUTF16Path(data) == hasBOM(data) \/ GuardedLikely(data)

(***************************************************************************)
(* C24: on every path of decodeHexString the bytes or code units below 32  *)
(* are dropped, except newline (10), carriage return (13) and tab (9),     *)
(* which are kept.                                                         *)
(***************************************************************************)
C24_ControlBytesDropped ==
    ret # <<>> => ret[1] = HexBytesWith(byteData(arg), GuardedLikely, KeptRune)

\* the same on the two UTF-16BE paths
ControlUnitsDroppedUTF16 ==
    ret # <<>> /\ OnUTF16Path(byteData(arg)) =>
        ret[1] = HexBytesWith(byteData(arg), GuardedLikely, KeptRune)

\* on the single-byte path every byte below 32 is dropped
ControlBytesDroppedSingleByte ==
    ret # <<>> /\ ~OnUTF16Path(byteData(arg)) =>
        ret[1] = recode(Filter(byteData(arg), KeptByte))

\* more than 25% of the bytes of the payload are zero bytes at even offsets
QuarterZero(data) == 4 * zeroCount(data) > Len(data)

(***************************************************************************)
(* C25: a payload without byte-order mark is decoded as UTF-16BE exactly   *)
(* when more than 25% of it are zero bytes at even offsets, whatever its   *)
(* length, and as single-byte text of the Turkish code page otherwise; a   *)
(* payload with an odd number of digits is first padded with a zero digit. *)
(***************************************************************************)
C25_UTF16WhenQuarterZero ==
    ret # <<>> /\ ~hasBOM(byteData(arg)) =>
        ret[1] = HexBytesWith(byteData(arg), QuarterZero, KeptByte)

\* the same for the payloads of an even number of bytes, four at least
UTF16WhenQuarterZeroFromFour ==
    ret # <<>> /\ ~hasBOM(byteData(arg))
               /\ Len(byteData(arg)) >= 4 /\ Len(byteData(arg)) % 2 = 0 =>
        ret[1] = HexBytesWith(byteData(arg), QuarterZero, KeptByte)

\* the shorter payloads and those of an odd number of bytes are single-byte text
SingleByteWhenShortOrOdd ==
    ret # <<>> /\ ~hasBOM(byteData(arg))
               /\ (Len(byteData(arg)) < 4 \/ Len(byteData(arg)) % 2 = 1) =>
        ret[1] = recode(Filter(byteData(arg), KeptByte))

\* an odd digit at the end is the high digit of a last byte
OddPayloadPadded ==
    ret # <<>> /\ Len(arg) % 2 = 1 => ret[1] = decodeHexString(Append(arg, 0))

(***************************************************************************)
(* sortRegionsByPosition: the glyph rectangles in reading order.  A region *)
(* is the rectangle's Min.X, Min.Y and height Dy().  sort.Slice sorts a    *)
(* slice of at most 12 elements by insertion, with the comparator given.   *)
(***************************************************************************)
abs(x) == IF x < 0 THEN 0 - x ELSE x

rowThreshold(ri, rj) == (ri.Dy + rj.Dy) \div 4

less(ri, rj) ==
    IF abs(ri.Y - rj.Y) < rowThreshold(ri, rj) THEN ri.X < rj.X ELSE ri.Y < rj.Y

RECURSIVE insertDown(_, _)
insertDown(data, j) ==
    IF j > 1 /\ less(data[j], data[j - 1])
    THEN insertDown([data EXCEPT ![j] = data[j - 1], ![j - 1] = data[j]], j - 1)
    ELSE data

RECURSIVE insertionSort(_, _)
insertionSort(data, i) ==
    IF i > Len(data) THEN data ELSE insertionSort(insertDown(data, i), i + 1)

sortRegionsByPosition(regions) == insertionSort(regions, 2)

MaxRegions == 3

Lefts == {10, 20, 30}

Tops == {0, 4, 5, 8}

Heights == {10, 12}

Regions == [X : Lefts, Y : Tops, Dy : Heights]

RegionLists == UNION {[1..n -> Regions] : n \in 0..MaxRegions}

SortInit ==
    /\ call = "sortRegionsByPosition" /\ arg \in RegionLists /\ ret = <<>>
    /\ VknIdle /\ RecIdle /\ ParseIdle /\ ClsIdle /\ ConcIdle

SortRegionsByPosition ==
    /\ call = "sortRegionsByPosition" /\ ret = <<>>
    /\ ret' = <<sortRegionsByPosition(arg)>>
    /\ UNCHANGED <<call, arg, vknVars, recVars, parseVars, clsVars, concVars>>

SortNext == SortRegionsByPosition

SpecSort == SortInit /\ [][SortNext]_vars

\* the top edges differ by less than a quarter of the sum of the heights
SameRow(a, b) == 4 * abs(a.Y - b.Y) < a.Dy + b.Dy

\* a may stand before b in reading order
ReadingOrder(a, b) == IF SameRow(a, b) THEN a.X <= b.X ELSE a.Y <= b.Y

(***************************************************************************)
(* C28: of any two glyphs of the sorted list, the one with the smaller     *)
(* left edge comes first when they are on the same row, and the one with   *)
(* the smaller top edge otherwise, whatever the list given.                *)
(***************************************************************************)
C28_ReadingOrder ==
    ret # <<>> =>
        \A p \in 1..Len(ret[1]) : \A q \in (p + 1)..Len(ret[1]) :
            ReadingOrder(ret[1][p], ret[1][q])

\* the comparator orders the regions of the list consistently
Consistent(regions) ==
    \A p \in 1..Len(regions) : \A q \in 1..Len(regions) : \A r \in 1..Len(regions) :
        /\ less(regions[p], regions[q]) /\ less(regions[q], regions[r])
               => less(regions[p], regions[r])
        /\ ~less(regions[p], regions[q]) /\ ~less(regions[q], regions[r])
               => ~less(regions[p], regions[r])

\* a list the comparator orders consistently comes out in the comparator's order
SortedWhenConsistent ==
    ret # <<>> /\ Consistent(arg) =>
        \A p \in 1..Len(ret[1]) : \A q \in (p + 1)..Len(ret[1]) :
            ~less(ret[1][q], ret[1][p])

\* neighbours of the sorted list are never in the comparator's reverse order
NeighboursInOrder ==
    ret # <<>> =>
        \A p \in 1..(Len(ret[1]) - 1) : ~less(ret[1][p + 1], ret[1][p])

\* the sorted list holds the regions given, each as often as given
SamePermutation ==
    ret # <<>> =>
        \A g \in Regions :
            Cardinality({p \in 1..Len(arg) : arg[p] = g})
                = Cardinality({p \in 1..Len(ret[1]) : ret[1][p] = g})

\* three regions, each a row-neighbour of the next, the first and last on two rows
RowCycle ==
    /\ ret # <<>> /\ Len(arg) = 3
    /\ \E p, q, r \in 1..3 :
        /\ less(arg[p], arg[q]) /\ less(arg[q], arg[r]) /\ less(arg[r], arg[p])

(***************************************************************************)
(* The candidate name of parseLineBasedFormat                              *)
(***************************************************************************)
\* the name lines as stated: the non-blank lines from line i on, three at
\* most, up to the first line with an address marker
RECURSIVE NonBlankNameLines(_, _, _)
NonBlankNameLines(lines, i, acc) ==
    IF i >= Len(lines) \/ Len(acc) = 3 THEN acc
    ELSE IF At(lines, i).blank THEN NonBlankNameLines(lines, i + 1, acc)
    ELSE IF At(lines, i).address THEN acc
    ELSE NonBlankNameLines(lines, i + 1, Append(acc, At(lines, i).trimmed))

\* the lines after the marker line are read
MarkerLineRead == mukellefinIdx(content, 0) # -1 /\ mukellefinIdx(content, 0) + 1 < Len(content)

\* the name that parseLineBasedFormat has put in the record
CandidateName == IF levha.TicaretUnvani # <<>> THEN levha.TicaretUnvani ELSE levha.AdiSoyadi

\* a blank line among the three lines after the marker line
BlankInWindow ==
    \E i \in (mukellefinIdx(content, 0) + 1)..(mukellefinIdx(content, 0) + 3) :
        i < Len(content) /\ At(content, i).blank

(***************************************************************************)
(* C26: the candidate name of parseLineBasedFormat is made of the          *)
(* non-blank lines after the marker line, three of them at most and up to  *)
(* the first line with an address marker, joined with one space; blank     *)
(* lines are skipped and are not counted.                                  *)
(***************************************************************************)
C26_NameFromNonBlankLines ==
    stage = "gib" /\ MarkerLineRead =>
        CandidateName
            = Join(NonBlankNameLines(content, mukellefinIdx(content, 0) + 1, <<>>), <<" ">>)

\* the same when none of the three lines after the marker line is blank
NameFromLinesWithoutBlank ==
    stage = "gib" /\ MarkerLineRead /\ ~BlankInWindow =>
        CandidateName
            = Join(NonBlankNameLines(content, mukellefinIdx(content, 0) + 1, <<>>), <<" ">>)

\* the name is made of the non-blank lines among the three lines after the marker
NameFromWindow ==
    stage = "gib" /\ MarkerLineRead =>
        CandidateName
            = Join(nameLoop(content, mukellefinIdx(content, 0) + 1,
                            mukellefinIdx(content, 0) + 4, <<>>, 0)[1], <<" ">>)

\* a blank line and a name line after the marker line have been read
BlankBeforeName ==
    /\ stage = "gib" /\ MarkerLineRead /\ BlankInWindow
    /\ CandidateName # <<>>

(***************************************************************************)
(* C27: parseGIBFormat writes a field only while it is empty: a name, an   *)
(* address, a tax office or a start date that an earlier strategy has set  *)
(* is left as it is.                                                       *)
(***************************************************************************)
C27_GIBKeepsSetFields ==
    [][stage = "gib" =>
        /\ (levha.AdiSoyadi # <<>> \/ levha.TicaretUnvani # <<>>) =>
               levha'.AdiSoyadi = levha.AdiSoyadi
               /\ levha'.TicaretUnvani = levha.TicaretUnvani
        /\ levha.IsYeriAdresi # <<>> => levha'.IsYeriAdresi = levha.IsYeriAdresi
        /\ levha.VergiDairesi # <<>> => levha'.VergiDairesi = levha.VergiDairesi
        /\ levha.IseBaslamaTarihi # <<>> =>
               levha'.IseBaslamaTarihi = levha.IseBaslamaTarihi]_vars

\* the name and the tax office that an earlier strategy has set are kept
GIBKeepsNameAndOffice ==
    [][stage = "gib" =>
        /\ (levha.AdiSoyadi # <<>> \/ levha.TicaretUnvani # <<>>) =>
               levha'.AdiSoyadi = levha.AdiSoyadi
               /\ levha'.TicaretUnvani = levha.TicaretUnvani
        /\ levha.VergiDairesi # <<>> => levha'.VergiDairesi = levha.VergiDairesi]_vars

(***************************************************************************)
(* extractTextFromPDFContent and the page loop of Parse.  A content stream *)
(* is a string of ASCII characters; the tokenizer reads its characters,    *)
(* the decoders read bytes and hex digits and write code points.           *)
(***************************************************************************)
\* the characters of the codes 32..126; "^A" is the grave accent (96)
Printable ==
    Str(" !") \o <<"\"">> \o Str("#$%&'()*+,-./0123456789:;<=>?@")
    \o Str("ABCDEFGHIJKLMNOPQRSTUVWXYZ[") \o <<"\\">> \o Str("]") \o <<"^">>
    \o Str("_") \o <<"^A">> \o Str("abcdefghijklmnopqrstuvwxyz") \o <<"{", "|", "}", "~">>

\* the Turkish letters outside ASCII, by code point
TurkishRunes ==
    { <<199, "^C">>, <<231, "^c">>, <<286, "^G">>, <<287, "^g">>, <<304, "^I">>,
      <<305, "^i">>, <<214, "^O">>, <<246, "^o">>, <<350, "^S">>, <<351, "^s">>,
      <<220, "^U">>, <<252, "^u">> }

\* the character of a code point; "^?" for those the model has no name for
Chr(r) ==
    IF r >= 32 /\ r <= 126 THEN Printable[r - 31]
    ELSE IF r = 10 THEN "\n" ELSE IF r = 13 THEN "\r" ELSE IF r = 9 THEN "\t"
    ELSE IF \E p \in TurkishRunes : p[1] = r
    THEN (CHOOSE p \in TurkishRunes : p[1] = r)[2]
    ELSE "^?"

\* the byte of an ASCII character
Ord(c) == CHOOSE r \in 32..126 : Printable[r - 31] = c

Text(runes) == [k \in 1..Len(runes) |-> Chr(runes[k])]

Bytes(chars) == [k \in 1..Len(chars) |-> Ord(chars[k])]

\* [0-9A-Fa-f] and the value of the digit
HexDigitChars == Str("0123456789ABCDEFabcdef")

IsHexDigit(c) == \E k \in 1..Len(HexDigitChars) : HexDigitChars[k] = c

HexVal(c) ==
    LET k == CHOOSE j \in 1..Len(HexDigitChars) : HexDigitChars[j] = c
    IN  IF k <= 16 THEN k - 1 ELSE k - 7

Nibbles(chars) == [k \in 1..Len(chars) |-> HexVal(chars[k])]

\* the position after the run of hex digits that begins at position p
hexRunEnd(s, p) ==
    LET stops == {q \in p..Len(s) : ~IsHexDigit(s[q])}
    IN  IF stops = {} THEN Len(s) + 1 ELSE CHOOSE q \in stops : \A k \in stops : q <= k

\* a match of <([0-9A-Fa-f]+)> begins at position p
hexAt(s, p) ==
    /\ s[p] = "<" /\ hexRunEnd(s, p + 1) > p + 1
    /\ hexRunEnd(s, p + 1) <= Len(s) /\ s[hexRunEnd(s, p + 1)] = ">"

\* hexRe.FindAllStringSubmatch(content, -1): the payloads of the matches
RECURSIVE hexMatches(_, _)
hexMatches(s, p) ==
    IF p > Len(s) THEN <<>>
    ELSE IF hexAt(s, p)
    THEN <<SubSeq(s, p + 1, hexRunEnd(s, p + 1) - 1)>>
             \o hexMatches(s, hexRunEnd(s, p + 1) + 1)
    ELSE hexMatches(s, p + 1)

\* what is written for the literal tokens: each decoded, then "\n"
literalTexts(tokens) ==
    Concat([k \in 1..Len(tokens) |->
                Text(decodePDFString(Bytes(tokens[k]))) \o <<"\n">>])

\* what is written for a hex match
hexText(payload) ==
    LET text == Text(decodeHexString(Nibbles(payload)))
    IN  IF text # <<>> THEN text \o Str("\nYILLIK GEL^IR VERG^IS^I") ELSE <<>>

hexTexts(matches) == Concat([k \in 1..Len(matches) |-> hexText(matches[k])])

extractTextFromPDFContent(s) ==
    literalTexts(extractPDFStrings(s, 0, <<>>)) \o hexTexts(hexMatches(s, 1))

\* the page loop of Parse: the text of every page whose content stream could
\* be read, each followed by "\n"
RECURSIVE rawText(_)
rawText(pages) ==
    IF pages = <<>> THEN <<>>
    ELSE (IF Head(pages).ok
          THEN extractTextFromPDFContent(Head(pages).content) \o <<"\n">>
          ELSE <<>>) \o rawText(Tail(pages))

\* the text of the record and the tax types parseContent finds in it
TextAndTaxTypes(text) ==
    [RawText |-> text, VergiTuru |-> taxTypeLoop(taxTypeHits(text), 1, <<>>)]

(***************************************************************************)
(* Specification SpecText: the text Parse extracts from a document of at   *)
(* most MaxTextPages pages, each of at most MaxOperators text operators,   *)
(* and the tax types found in it; the recovery finds no identifier         *)
(***************************************************************************)
MaxTextPages == 2

MaxOperators == 3

\* a text operator with its operand: a literal or a hex string
Operators ==
    { Str("(a)Tj "), Str("(KDV)Tj "), Str("<42>Tj "), Str("<4B4456>Tj ") }

Streams == {Concat(o) : o \in UNION {[1..n -> Operators] : n \in 0..MaxOperators}}

TextPages ==
    {[ok |-> FALSE, content |-> <<>>]} \cup {[ok |-> TRUE, content |-> c] : c \in Streams}

TextInit ==
    /\ call = "Parse.text"
    /\ arg \in UNION {[1..n -> TextPages] : n \in 0..MaxTextPages}
    /\ ret = <<>>
    /\ VknIdle /\ RecIdle /\ ParseIdle /\ ClsIdle /\ ConcIdle

ExtractText ==
    /\ call = "Parse.text" /\ ret = <<>>
    /\ ret' = <<TextAndTaxTypes(rawText(arg))>>
    /\ UNCHANGED <<call, arg, vknVars, recVars, parseVars, clsVars, concVars>>

TextNext == ExtractText

SpecText == TextInit /\ [][TextNext]_vars

\* the decoded tokens of a content stream in the order of the stream, from
\* position p on; kinds: the kinds of token that are listed
RECURSIVE StreamTokens(_, _, _)
StreamTokens(s, p, kinds) ==
    IF p > Len(s) THEN <<>>
    ELSE IF s[p] = "(" /\ Closing(s, p) # 0
    THEN (IF "literal" \in kinds
          THEN <<Text(decodePDFString(Bytes(SubSeq(s, p + 1, Closing(s, p) - 1))))>>
          ELSE <<>>) \o StreamTokens(s, Closing(s, p) + 1, kinds)
    ELSE IF hexAt(s, p)
    THEN (IF "hex" \in kinds
          THEN <<Text(decodeHexString(Nibbles(SubSeq(s, p + 1, hexRunEnd(s, p + 1) - 1))))>>
          ELSE <<>>) \o StreamTokens(s, hexRunEnd(s, p + 1) + 1, kinds)
    ELSE StreamTokens(s, p + 1, kinds)

AllTokens(s) == StreamTokens(s, 1, {"literal", "hex"})

\* the first position from p on where sub occurs in s, 0 if none
IndexFrom(s, sub, p) ==
    LET at == {i \in p..(Len(s) - Len(sub) + 1) : OccursAt(s, sub, i)}
    IN  IF at = {} THEN 0 ELSE CHOOSE i \in at : \A j \in at : i <= j

\* the tokens occur in the text one after the other, from position p on
RECURSIVE InOrder(_, _, _)
InOrder(text, tokens, p) ==
    \/ tokens = <<>>
    \/ /\ IndexFrom(text, Head(tokens), p) # 0
       /\ InOrder(text, Tail(tokens), IndexFrom(text, Head(tokens), p) + Len(Head(tokens)))

\* the pages of the document whose content stream could be read
ReadPages == {k \in 1..Len(arg) : arg[k].ok}

\* the page texts in page order, each followed by one newline
PagesInOrder ==
    ret[1].RawText
        = Concat([k \in 1..Len(arg) |->
                    IF arg[k].ok THEN extractTextFromPDFContent(arg[k].content) \o <<"\n">>
                    ELSE <<>>])

(***************************************************************************)
(* C22: the text of a page lists the decoded tokens in the order of the    *)
(* content stream, so a hex string that precedes a literal in the stream   *)
(* precedes it in the text; the text of the document is the page texts in  *)
(* page order, each followed by one newline.                               *)
(***************************************************************************)
C22_TokensInStreamOrder ==
    ret # <<>> =>
        /\ \A k \in ReadPages :
               InOrder(extractTextFromPDFContent(arg[k].content),
                       AllTokens(arg[k].content), 1)
        /\ PagesInOrder

\* the literals of a page are in the text in stream order, and so are its hex
\* strings
EachKindInStreamOrder ==
    ret # <<>> =>
        \A k \in ReadPages :
            /\ InOrder(extractTextFromPDFContent(arg[k].content),
                       StreamTokens(arg[k].content, 1, {"literal"}), 1)
            /\ InOrder(extractTextFromPDFContent(arg[k].content),
                       StreamTokens(arg[k].content, 1, {"hex"}), 1)

\* the text of a page lists its literals first and its hex strings after them
LiteralsBeforeHexStrings ==
    ret # <<>> =>
        \A k \in ReadPages :
            InOrder(extractTextFromPDFContent(arg[k].content),
                    StreamTokens(arg[k].content, 1, {"literal"})
                        \o StreamTokens(arg[k].content, 1, {"hex"}), 1)

\* the document text is the page texts in page order, a newline after each
DocumentInPageOrder == ret # <<>> => PagesInOrder

\* strings.Split(text, "\n")
RECURSIVE SplitLines(_)
SplitLines(s) ==
    IF IndexFrom(s, <<"\n">>, 1) = 0 THEN <<s>>
    ELSE <<SubSeq(s, 1, IndexFrom(s, <<"\n">>, 1) - 1)>>
             \o SplitLines(SubSeq(s, IndexFrom(s, <<"\n">>, 1) + 1, Len(s)))

\* the decoded tokens of the pages that could be read
DocumentTokens == UNION {{AllTokens(arg[k].content)[j] :
                             j \in 1..Len(AllTokens(arg[k].content))} : k \in ReadPages}

\* the tax type has a phrase that occurs in the text t
PhraseIn(displayName, t) ==
    \E k \in taxTypeHits(t) : taxTypeChecks[k][2] = displayName

(***************************************************************************)
(* C30: the extracted text is made of the decoded literal and hex tokens   *)
(* and of separators only, and a tax type is in VergiTuru only if its      *)
(* phrase occurs in a decoded token.                                       *)
(***************************************************************************)
C30_TaxTypesFromTokens ==
    ret # <<>> =>
        /\ \A k \in 1..Len(SplitLines(ret[1].RawText)) :
               \/ SplitLines(ret[1].RawText)[k] = <<>>
               \/ SplitLines(ret[1].RawText)[k] \in DocumentTokens
        /\ \A j \in 1..Len(ret[1].VergiTuru) :
               \E t \in DocumentTokens : PhraseIn(ret[1].VergiTuru[j], t)

\* a hex string with text is among the tokens of the document
HasHexText ==
    \E k \in ReadPages :
        \E j \in 1..Len(StreamTokens(arg[k].content, 1, {"hex"})) :
            StreamTokens(arg[k].content, 1, {"hex"})[j] # <<>>

\* the same for the documents without hex strings
TaxTypesFromLiterals ==
    ret # <<>> /\ ~HasHexText =>
        /\ \A k \in 1..Len(SplitLines(ret[1].RawText)) :
               \/ SplitLines(ret[1].RawText)[k] = <<>>
               \/ SplitLines(ret[1].RawText)[k] \in DocumentTokens
        /\ \A j \in 1..Len(ret[1].VergiTuru) :
               \E t \in DocumentTokens : PhraseIn(ret[1].VergiTuru[j], t)

\* a tax type of VergiTuru has its phrase in a decoded token, or is the one
\* of the phrase written after every hex string
TaxTypesFromTokensOrHexPhrase ==
    ret # <<>> =>
        \A j \in 1..Len(ret[1].VergiTuru) :
            \/ \E t \in DocumentTokens : PhraseIn(ret[1].VergiTuru[j], t)
            \/ HasHexText /\ ret[1].VergiTuru[j] = Str("Y^ill^ik Gelir Vergisi")

\* a hex string without a tax phrase, and a tax type in VergiTuru
TaxTypeFromHexString ==
    /\ ret # <<>> /\ HasHexText
    /\ \A t \in DocumentTokens : taxTypeHits(t) = {}
    /\ ret[1].VergiTuru # <<>>

\* a hex string before a literal in the stream of a page
HexBeforeLiteral ==
    /\ ret # <<>>
    /\ \E k \in ReadPages : IsPrefix(Str("<42>Tj (a)Tj "), arg[k].content)

(***************************************************************************)
(* Specification SpecConcurrent: two invocations of Parse, each on its own *)
(* Parser and its own document, running at the same time in one process.   *)
(* Each document has one page of text and a first embedded image that      *)
(* shows the barcode of its identifier.  With debug on, the recovery saves *)
(* the first image before it scans it; the content of a file is the images *)
(* written into it since it was last created.                              *)
(***************************************************************************)
Invocations == {1, 2}

\* the name under which the first embedded image is saved
FirstImageFile == "debug_vkn_barcode_image.png"

DebugFiles == {FirstImageFile}

\* the first embedded image of the document of invocation i, with identifier v
FirstImage(i, v) == [of |-> i, vkn |-> v]

StartInvocation(i, d, t, v) ==
    [pc |-> "start", debug |-> d, pages |-> <<PageOf(t)>>, image |-> FirstImage(i, v),
     ocr |-> <<>>, ret |-> <<>>, wrote |-> {}]

ConcInit ==
    /\ files = [n \in DebugFiles |-> "absent"]
    /\ inv \in {[i \in Invocations |-> StartInvocation(i, d[i], t[i], v[i])] :
                   d \in [Invocations -> BOOLEAN],
                   t \in [Invocations -> {<<lBlank>>, <<lAdi, lVkn, lDaire>>}],
                   v \in [Invocations -> {tVknA, tDate}]}
    /\ VknIdle /\ RecIdle /\ ParseIdle /\ ClsIdle /\ FnIdle

\* Parse extracts the text and calls the recovery, which finds the images
Begin(i) ==
    /\ inv[i].pc = "start"
    /\ inv' = [inv EXCEPT ![i].pc = IF inv[i].debug THEN "create" ELSE "scan"]
    /\ UNCHANGED <<files, vknVars, recVars, parseVars, clsVars, fnVars>>

\* saveImage: os.Create makes the file, or empties the one that is there
Create(i) ==
    /\ inv[i].pc = "create"
    /\ files' = [files EXCEPT ![FirstImageFile] = <<>>]
    /\ inv' = [inv EXCEPT ![i].pc = "encode", ![i].wrote = @ \cup {FirstImageFile}]
    /\ UNCHANGED <<vknVars, recVars, parseVars, clsVars, fnVars>>

\* saveImage: png.Encode writes the image into the file
Encode(i) ==
    /\ inv[i].pc = "encode"
    /\ files' = [files EXCEPT ![FirstImageFile] = Append(@, inv[i].image)]
    /\ inv' = [inv EXCEPT ![i].pc = "scan"]
    /\ UNCHANGED <<vknVars, recVars, parseVars, clsVars, fnVars>>

\* scanCode128Barcode on the first image gives its identifier
Scan(i) ==
    /\ inv[i].pc = "scan"
    /\ inv' = [inv EXCEPT ![i].pc = "parse",
                          ![i].ocr = <<[vkn |-> inv[i].image.vkn, err |-> FALSE]>>]
    /\ UNCHANGED <<files, vknVars, recVars, parseVars, clsVars, fnVars>>

\* Parse adds the identifier to the text, parses it and returns the record
Finish(i) ==
    /\ inv[i].pc = "parse"
    /\ inv' = [inv EXCEPT ![i].pc = "done",
                          ![i].ret = <<Parse([readOk |-> TRUE, validOk |-> TRUE,
                                              pages |-> inv[i].pages,
                                              ocr |-> inv[i].ocr[1]])>>]
    /\ UNCHANGED <<files, vknVars, recVars, parseVars, clsVars, fnVars>>

ConcNext ==
    \E i \in Invocations :
        \/ Begin(i)
        \/ Create(i)
        \/ Encode(i)
        \/ Scan(i)
        \/ Finish(i)

SpecConcurrent == ConcInit /\ [][ConcNext]_vars

\* what Parse returns for the document of invocation i when it runs alone
Alone(i) ==
    Parse([readOk |-> TRUE, validOk |-> TRUE, pages |-> inv[i].pages,
           ocr |-> [vkn |-> inv[i].image.vkn, err |-> FALSE]])

ReturnsAsAlone == \A i \in Invocations : inv[i].pc = "done" => inv[i].ret = <<Alone(i)>>

(***************************************************************************)
(* C29: two invocations of Parse that run at the same time on two Parser   *)
(* instances share no mutable state: nothing that one writes, its debug    *)
(* images included, is written by the other, and each returns the record   *)
(* it returns when it runs alone.                                          *)
(***************************************************************************)
C29_NoSharedState ==
    /\ \A i, j \in Invocations : i # j => inv[i].wrote \cap inv[j].wrote = {}
    /\ ReturnsAsAlone

\* each invocation returns the record it returns alone
EachReturnsItsRecord == ReturnsAsAlone

\* no file is written by both unless both have debug on
NoSharedFileUnlessBothDebug ==
    (\E i \in Invocations : ~inv[i].debug) =>
        \A i, j \in Invocations : i # j => inv[i].wrote \cap inv[j].wrote = {}

\* both have returned and the image one of them saved is no longer in its file
SavedImageLost ==
    /\ \A i \in Invocations : inv[i].pc = "done" /\ inv[i].debug
    /\ files[FirstImageFile] # <<inv[1].image>>

\* both have written their image into one file that neither has emptied since
TwoImagesInOneFile ==
    /\ \A i \in Invocations : inv[i].pc = "done"
    /\ Len(files[FirstImageFile]) = 2

====
